---- MODULE Spec2Model ----
(***************************************************************************)
(* Storage backends of deepagents: the in-memory StateBackend, the        *)
(* FilesystemBackend, the namespaced StoreBackend and the CompositeBackend *)
(* router, with the string utilities they share.                           *)
(*                                                                         *)
(* A string is a sequence of one-character strings, so that indexOf,       *)
(* startsWith, slice, split and join are computed as the code computes     *)
(* them.  A timestamp is a natural number read from a logical clock.       *)
(* A value the code computes once and uses several times is the argument   *)
(* of a local operator, which keeps it computed once.                      *)
(***************************************************************************)
EXTENDS Integers, Sequences, FiniteSets, TLC

\* ------------------------------------------------------------------------
\* Bounds of the model
\* ------------------------------------------------------------------------
\* the largest value of the logical clock: a write or an edit that stores
\* something reads a clock that has advanced by one
MaxClock == 2

\* ------------------------------------------------------------------------
\* Characters and JavaScript string primitives
\* ------------------------------------------------------------------------
NL == "\n"
TAB == "\t"
SP == " "

Min(a, b) == IF a <= b THEN a ELSE b

\* s.startsWith(p)
StartsWith(s, p) == Len(p) <= Len(s) /\ SubSeq(s, 1, Len(p)) = p

\* s.endsWith(p)
EndsWith(s, p) == Len(p) <= Len(s) /\ SubSeq(s, Len(s) - Len(p) + 1, Len(s)) = p

\* s.slice(n) for 0 <= n
Slice(s, n) == SubSeq(s, n + 1, Len(s))

\* s.slice(a, b) for 0 <= a, 0 <= b
Slice2(s, a, b) == SubSeq(s, a + 1, Min(b, Len(s)))

\* t occurs in s at the 0-based index i
OccursAt(s, t, i) == i >= 0 /\ i + Len(t) <= Len(s) /\ SubSeq(s, i + 1, i + Len(t)) = t

RECURSIVE IndexOf(_, _, _)
\* s.indexOf(t, pos): the least 0-based index >= pos where t occurs, or -1;
\* the empty string occurs at every index up to the length of s
IndexOf(s, t, pos) ==
  IF pos + Len(t) > Len(s) THEN (IF Len(t) = 0 THEN Len(s) ELSE -1)
  ELSE IF OccursAt(s, t, pos) THEN pos
  ELSE IndexOf(s, t, pos + 1)

\* s.includes(t)
Includes(s, t) == IndexOf(s, t, 0) # -1

RECURSIVE SplitStr(_, _)
\* s.split(sep) for a non-empty separator: the pieces between the
\* non-overlapping occurrences of sep, scanned left to right
SplitStr(s, sep) ==
  LET cut(i) == IF i = -1 THEN <<s>>
                ELSE <<SubSeq(s, 1, i)>> \o SplitStr(Slice(s, i + Len(sep)), sep)
  IN cut(IndexOf(s, sep, 0))

RECURSIVE JoinStr(_, _)
\* pieces.join(sep)
JoinStr(pieces, sep) ==
  IF Len(pieces) = 0 THEN <<>>
  ELSE IF Len(pieces) = 1 THEN pieces[1]
  ELSE pieces[1] \o sep \o JoinStr(Tail(pieces), sep)

\* String.prototype.trim() leaves nothing: every character is white space
IsBlank(s) == \A i \in 1..Len(s) : s[i] \in {SP, NL, TAB}

RECURSIVE ToDigits(_)
\* n.toString() for a natural number
ToDigits(n) ==
  IF n < 10 THEN <<<<"0", "1", "2", "3", "4", "5", "6", "7", "8", "9">>[n + 1]>>
  ELSE ToDigits(n \div 10) \o ToDigits(n % 10)

\* s.padStart(w): spaces are added on the left up to width w
PadStart(s, w) == [i \in 1..(w - Len(s)) |-> SP] \o s

\* ------------------------------------------------------------------------
\* utils/constants.ts
\* ------------------------------------------------------------------------
\* The code's value is 10000; the model scales it down so that lines longer
\* than the maximum occur among the contents it writes.
MAX_LINE_LENGTH == 2
LINE_NUMBER_WIDTH == 6

\* ------------------------------------------------------------------------
\* utils/formatting.ts
\* ------------------------------------------------------------------------
\* the chunks of an over-long line, every one under the number of the line
chunkLines_sameLabel(line, lineNum, chunkIdx) ==
  [k \in 1..((Len(line) + MAX_LINE_LENGTH - 1) \div MAX_LINE_LENGTH) |->
     PadStart(ToDigits(lineNum), LINE_NUMBER_WIDTH) \o <<TAB>>
       \o Slice2(line, (k - 1) * MAX_LINE_LENGTH, Min(k * MAX_LINE_LENGTH, Len(line)))]

RECURSIVE chunkLines(_, _, _)
\* the inner loop of formatContentWithLineNumbers: the rendered chunks
\* chunkIdx, chunkIdx+1, ... of one over-long line
chunkLines(line, lineNum, chunkIdx) ==
  LET numChunks == (Len(line) + MAX_LINE_LENGTH - 1) \div MAX_LINE_LENGTH
      start == chunkIdx * MAX_LINE_LENGTH
      end == Min(start + MAX_LINE_LENGTH, Len(line))
      chunk == Slice2(line, start, end)
      marker == IF chunkIdx = 0 THEN ToDigits(lineNum)
                ELSE ToDigits(lineNum) \o <<".">> \o ToDigits(chunkIdx)
  IN IF chunkIdx >= numChunks THEN <<>>
     ELSE <<PadStart(marker, LINE_NUMBER_WIDTH) \o <<TAB>> \o chunk>>
          \o chunkLines(line, lineNum, chunkIdx + 1)

RECURSIVE resultLines(_, _, _)
\* the outer loop of formatContentWithLineNumbers from index i (1-based)
resultLines(lines, startLine, i) ==
  IF i > Len(lines) THEN <<>>
  ELSE (IF Len(lines[i]) <= MAX_LINE_LENGTH
        THEN <<PadStart(ToDigits((i - 1) + startLine), LINE_NUMBER_WIDTH)
                 \o <<TAB>> \o lines[i]>>
        ELSE chunkLines(lines[i], (i - 1) + startLine, 0))
       \o resultLines(lines, startLine, i + 1)

\* formatContentWithLineNumbers numbering the lines from 0 whatever startLine is
formatContentWithLineNumbers_fromZero(lines, startLine) ==
  JoinStr(resultLines(lines, 0, 1), <<NL>>)

\* formatContentWithLineNumbers(content: string[], startLine)
formatContentWithLineNumbers(lines, startLine) ==
  JoinStr(resultLines(lines, startLine, 1), <<NL>>)

\* checkEmptyContent(content) returns the warning
checkEmptyContent(content) == content = <<>> \/ IsBlank(content)

RECURSIVE countLoop(_, _, _, _)
\* the counting loop of performStringReplacement; -1 when the loop never
\* exits: an iteration that finds oldString without advancing pos is
\* followed by the same iteration for ever
countLoop(content, oldString, pos, occurrences) ==
  LET step(idx) ==
        IF idx = -1 THEN occurrences
        ELSE IF idx + Len(oldString) = pos THEN -1
        ELSE countLoop(content, oldString, idx + Len(oldString), occurrences + 1)
  IN step(IndexOf(content, oldString, pos))

RECURSIVE expandReplacement(_, _, _, _)
\* String.prototype.replace(string, string) interprets the replacement:
\* $$ is a dollar sign, $& the match, $` the text before and $' the text
\* after the match; with a string pattern there are no groups, and every
\* other character (a lone $ included) stands for itself
expandReplacement(newString, matched, before, after) ==
  IF Len(newString) = 0 THEN <<>>
  ELSE IF Len(newString) >= 2 /\ newString[1] = "$" /\ newString[2] \in {"$", "&", "`", "'"}
       THEN (CASE newString[2] = "$" -> <<"$">>
               [] newString[2] = "&" -> matched
               [] newString[2] = "`" -> before
               [] newString[2] = "'" -> after)
            \o expandReplacement(Slice(newString, 2), matched, before, after)
       ELSE <<newString[1]>> \o expandReplacement(Tail(newString), matched, before, after)

\* content.replace(oldString, newString): the first occurrence only
replaceFirst(content, oldString, newString) ==
  LET splice(before, after) ==
        before \o expandReplacement(newString, oldString, before, after) \o after
      at(i) == IF i = -1 THEN content
               ELSE splice(SubSeq(content, 1, i), Slice(content, i + Len(oldString)))
  IN at(IndexOf(content, oldString, 0))

\* performStringReplacement(content, oldString, newString, replaceAll)
performStringReplacement(content, oldString, newString, replaceAll) ==
  LET decide(occurrences) ==
        IF occurrences = -1 THEN [kind |-> "hang"]
        ELSE IF occurrences = 0 THEN [kind |-> "error", err |-> "string_not_found"]
        ELSE IF occurrences > 1 /\ ~replaceAll
             THEN [kind |-> "error", err |-> "multiple_occurrences"]
        ELSE [kind |-> "ok",
              newContent |-> IF replaceAll
                             THEN JoinStr(SplitStr(content, oldString), newString)
                             ELSE replaceFirst(content, oldString, newString),
              occurrences |-> occurrences]
  IN decide(countLoop(content, oldString, 0, 0))

\* ------------------------------------------------------------------------
\* utils/file-data.ts
\* ------------------------------------------------------------------------
\* fileDataToString(fileData)
fileDataToString(fileData) == JoinStr(fileData.content, <<NL>>)

\* createFileData(content) at the time now
createFileData(content, now) ==
  [content |-> SplitStr(content, <<NL>>), created_at |-> now, modified_at |-> now]

\* updateFileData making the record anew: the time of creation is the
\* time of the update
updateFileData_recreating(fileData, content, now) ==
  [content |-> SplitStr(content, <<NL>>), created_at |-> now, modified_at |-> now]

\* updateFileData(fileData, content) at the time now
updateFileData(fileData, content, now) ==
  [content |-> SplitStr(content, <<NL>>), created_at |-> fileData.created_at,
   modified_at |-> now]

\* formatReadResponse numbering the lines it returns from 1 whatever the
\* offset is
formatReadResponse_fromOne(fileData, offset, limit) ==
  LET fromLines(lines) ==
        IF offset >= Len(lines) THEN [kind |-> "error", err |-> "offset_exceeds_length"]
        ELSE [kind |-> "text",
              text |-> formatContentWithLineNumbers(
                         Slice2(lines, offset, Min(offset + limit, Len(lines))), 1)]
      fromContent(content) ==
        IF checkEmptyContent(content) THEN [kind |-> "empty"]
        ELSE fromLines(SplitStr(content, <<NL>>))
  IN fromContent(fileDataToString(fileData))

\* formatReadResponse(fileData, offset, limit); the three kinds of string
\* it returns are told apart by a tag
formatReadResponse(fileData, offset, limit) ==
  LET fromLines(lines) ==
        IF offset >= Len(lines) THEN [kind |-> "error", err |-> "offset_exceeds_length"]
        ELSE [kind |-> "text",
              text |-> formatContentWithLineNumbers(
                         Slice2(lines, offset, Min(offset + limit, Len(lines))),
                         offset + 1)]
      fromContent(content) ==
        IF checkEmptyContent(content) THEN [kind |-> "empty"]
        ELSE fromLines(SplitStr(content, <<NL>>))
  IN fromContent(fileDataToString(fileData))

\* ------------------------------------------------------------------------
\* Library functions the backends call: RegExp, minimatch, localeCompare
\* ------------------------------------------------------------------------
\* new RegExp(pattern) does not throw.  The patterns of the model are made
\* of literal characters, the wildcard "." and character classes; a class
\* that is opened and never closed is a syntax error.
regexCompiles(pattern) ==
  \A i \in 1..Len(pattern) :
     pattern[i] = "[" => \E j \in (i + 1)..Len(pattern) : pattern[j] = "]"

\* regex.test(line) for a pattern of literal characters and "."
regexTest(pattern, line) ==
  \E i \in 0..Len(line) :
     /\ i + Len(pattern) <= Len(line)
     /\ \A k \in 1..Len(pattern) : pattern[k] = "." \/ pattern[k] = line[i + k]

RECURSIVE wildMatch(_, _)
\* one path segment against one pattern segment in which "*" stands for
\* any run of characters
wildMatch(seg, pat) ==
  IF Len(pat) = 0 THEN Len(seg) = 0
  ELSE IF pat[1] = "*"
       THEN wildMatch(seg, Tail(pat)) \/ (Len(seg) > 0 /\ wildMatch(Tail(seg), pat))
       ELSE Len(seg) > 0 /\ seg[1] = pat[1] /\ wildMatch(Tail(seg), Tail(pat))

RECURSIVE segsMatch(_, _)
\* the segments of a path against the segments of a glob pattern, "**"
\* standing for any number of whole segments
segsMatch(segs, pats) ==
  IF Len(pats) = 0 THEN Len(segs) = 0
  ELSE IF pats[1] = <<"*", "*">>
       THEN segsMatch(segs, Tail(pats)) \/ (Len(segs) > 0 /\ segsMatch(Tail(segs), pats))
       ELSE Len(segs) > 0 /\ wildMatch(segs[1], pats[1]) /\ segsMatch(Tail(segs), Tail(pats))

\* minimatch(name, pattern)
minimatch(name, pattern) == segsMatch(SplitStr(name, <<"/">>), SplitStr(pattern, <<"/">>))

\* the characters of the model in collation order: punctuation, then
\* digits, then letters
collation ==
  <<SP, ".", "/", "~", "$", "0", "1", "2", "3", "4", "5", "6", "7", "8", "9",
    "a", "A", "b", "B", "d", "e", "f", "g", "j", "l", "m", "n", "o", "r", "s", "t", "x">>

\* the collation rank of a character
charRank(c) ==
  IF \E i \in 1..Len(collation) : collation[i] = c
  THEN CHOOSE i \in 1..Len(collation) : collation[i] = c
  ELSE 0

RECURSIVE localeLess(_, _)
\* a.localeCompare(b) < 0
localeLess(a, b) ==
  LET cmp(ra, rb) == IF ra # rb THEN ra < rb ELSE localeLess(Tail(a), Tail(b))
  IN IF Len(b) = 0 THEN FALSE
     ELSE IF Len(a) = 0 THEN TRUE
     ELSE cmp(charRank(a[1]), charRank(b[1]))

RECURSIVE insertByPath(_, _)
\* one step of a stable sort by path: e goes after the entries that do not
\* compare greater
insertByPath(sorted, e) ==
  IF Len(sorted) = 0 THEN <<e>>
  ELSE IF localeLess(e.path, sorted[1].path) THEN <<e>> \o sorted
  ELSE <<sorted[1]>> \o insertByPath(Tail(sorted), e)

RECURSIVE sortByPath(_)
\* infos.sort((a, b) => a.path.localeCompare(b.path))
sortByPath(infos) ==
  IF Len(infos) = 0 THEN <<>>
  ELSE insertByPath(sortByPath(SubSeq(infos, 1, Len(infos) - 1)), infos[Len(infos)])

RECURSIVE insertByMtime(_, _)
\* one step of a stable sort by modification time, newest first
insertByMtime(sorted, e) ==
  IF Len(sorted) = 0 THEN <<e>>
  ELSE IF e.modified_at > sorted[1].modified_at THEN <<e>> \o sorted
  ELSE <<sorted[1]>> \o insertByMtime(Tail(sorted), e)

RECURSIVE sortByMtimeDesc(_)
\* sort by modification time, most recent first
sortByMtimeDesc(infos) ==
  IF Len(infos) = 0 THEN <<>>
  ELSE insertByMtime(sortByMtimeDesc(SubSeq(infos, 1, Len(infos) - 1)), infos[Len(infos)])

RECURSIVE FlattenSeq(_)
\* the concatenation of a sequence of sequences
FlattenSeq(ss) == IF Len(ss) = 0 THEN <<>> ELSE ss[1] \o FlattenSeq(Tail(ss))

RECURSIVE SetToSortedSeq(_)
\* the elements of a set of strings as a sequence in collation order
SetToSortedSeq(S) ==
  LET from(m) == <<m>> \o SetToSortedSeq(S \ {m})
  IN IF S = {} THEN <<>>
     ELSE from(CHOOSE x \in S : \A y \in S : ~localeLess(y, x))

\* ------------------------------------------------------------------------
\* utils/path-validation.ts
\* ------------------------------------------------------------------------
\* validatePath(path): null, undefined and "" are "/"; the result starts
\* and ends with "/"
validatePath(path) ==
  LET closed(normalized) ==
        IF EndsWith(normalized, <<"/">>) THEN normalized ELSE normalized \o <<"/">>
      opened(effectivePath) ==
        closed(IF StartsWith(effectivePath, <<"/">>) THEN effectivePath
               ELSE <<"/">> \o effectivePath)
  IN opened(IF path = <<>> THEN <<"/">> ELSE path)

\* validatePath throws: the path is white space only
validatePathThrows(path) == path # <<>> /\ IsBlank(path)

\* ------------------------------------------------------------------------
\* backends/state-backend.ts
\* ------------------------------------------------------------------------
\* The Map of a StateBackend is the sequence of its entries in insertion
\* order, each a record [path, data].  The empty string of a directory's
\* modified_at is NoTime.
NoTime == -1

\* this.files.has(path): the index of the entry, 0 when there is none
mapIndex(files, path) ==
  IF \E i \in 1..Len(files) : files[i].path = path
  THEN CHOOSE i \in 1..Len(files) : files[i].path = path
  ELSE 0

\* this.files.set(path, data): a new key goes last, an old key keeps its place
mapSet(files, path, data) ==
  LET at(i) == IF i = 0 THEN Append(files, [path |-> path, data |-> data])
               ELSE [files EXCEPT ![i].data = data]
  IN at(mapIndex(files, path))

\* the FileInfo of a stored file
fileInfoOf(path, data) ==
  [path |-> path, is_dir |-> FALSE, size |-> Len(fileDataToString(data)),
   modified_at |-> data.modified_at]

\* the FileInfo of a directory that carries no time
dirInfoOf(path) == [path |-> path, is_dir |-> TRUE, size |-> 0, modified_at |-> NoTime]

\* the loop of ls_info over one entry of the Map: nothing for an entry
\* outside the directory, the FileInfo of a file directly in it, and the
\* directory of an entry below it
lsEntry(e, normalizedPath) ==
  LET ofRelative(relative) ==
        IF ~Includes(relative, <<"/">>)
        THEN [files |-> <<fileInfoOf(e.path, e.data)>>, subdirs |-> {}]
        ELSE [files |-> <<>>,
              subdirs |-> {normalizedPath \o name \o <<"/">> :
                             name \in {SplitStr(relative, <<"/">>)[1]} \ {<<>>}}]
  IN IF ~StartsWith(e.path, normalizedPath) THEN [files |-> <<>>, subdirs |-> {}]
     ELSE ofRelative(Slice(e.path, Len(normalizedPath)))

\* StateBackend.ls_info(path)
StateBackend_ls_info(files, path) ==
  LET listed(entries) ==
        sortByPath(FlattenSeq([i \in 1..Len(entries) |-> entries[i].files])
                   \o [d \in 1..Cardinality(UNION {entries[i].subdirs : i \in 1..Len(entries)})
                         |-> dirInfoOf(SetToSortedSeq(
                                UNION {entries[i].subdirs : i \in 1..Len(entries)})[d])])
      under(normalizedPath) ==
        listed([i \in 1..Len(files) |-> lsEntry(files[i], normalizedPath)])
  IN [kind |-> "list",
      items |-> under(IF EndsWith(path, <<"/">>) THEN path ELSE path \o <<"/">>)]

\* StateBackend.read(file_path, offset, limit)
StateBackend_read(files, file_path, offset, limit) ==
  LET at(i) == IF i = 0 THEN [kind |-> "error", err |-> "not_found"]
               ELSE formatReadResponse(files[i].data, offset, limit)
  IN at(mapIndex(files, file_path))

\* StateBackend.write without the test this.files.has(file_path)
StateBackend_write_overwriting(files, file_path, content, now) ==
  LET stored(newFileData) ==
        [res |-> [kind |-> "ok", path |-> file_path,
                  filesUpdate |-> [kind |-> "map", path |-> file_path, data |-> newFileData]],
         files |-> mapSet(files, file_path, newFileData)]
  IN stored(createFileData(content, now))

\* StateBackend.write answering as a backend that persists by itself does
StateBackend_write_nullUpdate(files, file_path, content, now) ==
  LET stored(newFileData) ==
        [res |-> [kind |-> "ok", path |-> file_path, filesUpdate |-> [kind |-> "null"]],
         files |-> mapSet(files, file_path, newFileData)]
  IN IF mapIndex(files, file_path) # 0
     THEN [res |-> [kind |-> "error", err |-> "already_exists"], files |-> files]
     ELSE stored(createFileData(content, now))

\* StateBackend.write(file_path, content): the result and the new Map
StateBackend_write(files, file_path, content, now) ==
  LET stored(newFileData) ==
        [res |-> [kind |-> "ok", path |-> file_path,
                  filesUpdate |-> [kind |-> "map", path |-> file_path, data |-> newFileData]],
         files |-> mapSet(files, file_path, newFileData)]
  IN IF mapIndex(files, file_path) # 0
     THEN [res |-> [kind |-> "error", err |-> "already_exists"], files |-> files]
     ELSE stored(createFileData(content, now))

\* StateBackend.edit(file_path, old_string, new_string, replace_all)
StateBackend_edit(files, file_path, old_string, new_string, replace_all, now) ==
  LET stored(newFileData, occurrences) ==
        [res |-> [kind |-> "ok", path |-> file_path,
                  filesUpdate |-> [kind |-> "map", path |-> file_path, data |-> newFileData],
                  occurrences |-> occurrences],
         files |-> mapSet(files, file_path, newFileData)]
      replaced(fileData, result) ==
        IF result.kind # "ok" THEN [res |-> result, files |-> files]
        ELSE stored(updateFileData(fileData, result.newContent, now), result.occurrences)
      found(fileData) ==
        replaced(fileData,
                 performStringReplacement(fileDataToString(fileData), old_string,
                                          new_string, replace_all))
      at(i) == IF i = 0 THEN [res |-> [kind |-> "error", err |-> "not_found"], files |-> files]
               ELSE found(files[i].data)
  IN at(mapIndex(files, file_path))

\* the matches of one file, line by line
lineMatches(path, lines, pattern) ==
  LET numbered(hits) ==
        [k \in 1..Len(hits) |-> [path |-> path, line |-> hits[k], text |-> lines[hits[k]]]]
  IN numbered(SelectSeq([i \in 1..Len(lines) |-> i], LAMBDA i : regexTest(pattern, lines[i])))

\* fp.split('/').pop()
baseName(fp) == LET lastOf(segs) == segs[Len(segs)] IN lastOf(SplitStr(fp, <<"/">>))

\* grepMatchesFromFiles without the test of the pattern: a pattern that
\* does not compile matches as the characters it is made of
grepMatchesFromFiles_unvalidated(files, pattern, path, glob) ==
  LET matched(filtered) ==
        FlattenSeq([i \in 1..Len(filtered) |->
                      lineMatches(filtered[i].path, filtered[i].data.content, pattern)])
      under(normalizedPath) ==
        matched(SelectSeq(files, LAMBDA e :
                  /\ StartsWith(e.path, normalizedPath)
                  /\ (glob # <<>> => minimatch(baseName(e.path), glob))))
  IN IF validatePathThrows(path) THEN [kind |-> "list", items |-> <<>>]
     ELSE [kind |-> "list", items |-> under(validatePath(path))]

\* grepMatchesFromFiles(files, pattern, path, glob); a null or missing
\* path or glob is the empty string
grepMatchesFromFiles(files, pattern, path, glob) ==
  LET matched(filtered) ==
        FlattenSeq([i \in 1..Len(filtered) |->
                      lineMatches(filtered[i].path, filtered[i].data.content, pattern)])
      under(normalizedPath) ==
        matched(SelectSeq(files, LAMBDA e :
                  /\ StartsWith(e.path, normalizedPath)
                  /\ (glob # <<>> => minimatch(baseName(e.path), glob))))
  IN IF ~regexCompiles(pattern) THEN [kind |-> "error", err |-> "invalid_regex"]
     ELSE IF validatePathThrows(path) THEN [kind |-> "list", items |-> <<>>]
     ELSE [kind |-> "list", items |-> under(validatePath(path))]

\* StateBackend.grep_raw(pattern, path, glob)
StateBackend_grep_raw(files, pattern, path, glob) ==
  grepMatchesFromFiles(files, pattern, path, glob)

\* the path of a file relative to the search path, without a leading slash
globRelative(filePath, normalizedPath) ==
  LET stripped(r) == IF StartsWith(r, <<"/">>) THEN Tail(r) ELSE r
  IN stripped(Slice(filePath, Len(normalizedPath)))

\* globSearchFiles(files, pattern, path): the matching entries, most
\* recently modified first
globSearchFiles(files, pattern, path) ==
  LET newestFirst(matches) ==
        sortByMtimeDesc([i \in 1..Len(matches) |->
                           [path |-> matches[i].path,
                            modified_at |-> matches[i].data.modified_at]])
      matching(relative) == relative # <<>> /\ minimatch(relative, pattern)
      under(normalizedPath) ==
        newestFirst(SelectSeq(files, LAMBDA e :
                      /\ StartsWith(e.path, normalizedPath)
                      /\ matching(globRelative(e.path, normalizedPath))))
  IN IF validatePathThrows(path) THEN <<>> ELSE under(validatePath(path))

\* StateBackend.glob_info(pattern, path)
StateBackend_glob_info(files, pattern, path) ==
  LET infos(matchedPaths) ==
        [i \in 1..Len(matchedPaths) |->
           fileInfoOf(matchedPaths[i].path,
                      files[mapIndex(files, matchedPaths[i].path)].data)]
  IN [kind |-> "list", items |-> infos(globSearchFiles(files, pattern, path))]

\* ------------------------------------------------------------------------
\* The host file system (node:fs, node:path) that FilesystemBackend and
\* StoreBackend are written against
\* ------------------------------------------------------------------------
\* The disk is a function from normalized absolute paths to nodes: a
\* directory [kind, mtime] or a regular file [kind, content, mtime,
\* birthtime].  Every node but "/" has its parent directory on the disk.

RECURSIVE resolveSegs(_, _)
\* the segments of a path with "", "." and ".." resolved against the stack
resolveSegs(segs, stack) ==
  IF Len(segs) = 0 THEN stack
  ELSE IF segs[1] = <<>> \/ segs[1] = <<".">> THEN resolveSegs(Tail(segs), stack)
  ELSE IF segs[1] = <<".", ".">>
       THEN resolveSegs(Tail(segs), SubSeq(stack, 1, Len(stack) - 1))
  ELSE resolveSegs(Tail(segs), Append(stack, segs[1]))

\* the resolved segments of an absolute path
pathSegs(p) == resolveSegs(SplitStr(p, <<"/">>), <<>>)

\* the absolute path with the segments segs
segsToPath(segs) == <<"/">> \o JoinStr(segs, <<"/">>)

\* path.resolve(p) of an absolute path: normalized, no trailing slash
pathNormalizeAbs(p) == segsToPath(pathSegs(p))

\* path.resolve(base, rel): an absolute rel replaces base
pathResolve(base, rel) ==
  pathNormalizeAbs(IF StartsWith(rel, <<"/">>) THEN rel ELSE base \o <<"/">> \o rel)

\* path.join(base, rel) for an absolute base: normalized, a trailing slash
\* is kept
pathJoin(base, rel) ==
  LET closed(joined, norm) ==
        IF EndsWith(joined, <<"/">>) /\ norm # <<"/">> THEN norm \o <<"/">> ELSE norm
      normalized(joined) == closed(joined, pathNormalizeAbs(joined))
  IN normalized(IF rel = <<>> THEN base ELSE base \o <<"/">> \o rel)

\* the path without its trailing slash
stripTrailingSlash(p) ==
  IF Len(p) > 1 /\ EndsWith(p, <<"/">>) THEN SubSeq(p, 1, Len(p) - 1) ELSE p

\* path.dirname(p)
pathDirname(p) ==
  LET parent(segs) == segsToPath(SubSeq(segs, 1, Len(segs) - 1))
  IN parent(pathSegs(p))

\* path.basename(p)
pathBasename(p) ==
  LET lastOf(segs) == IF Len(segs) = 0 THEN <<>> ELSE segs[Len(segs)]
  IN lastOf(pathSegs(p))

RECURSIVE commonLen(_, _)
\* the number of leading segments two paths share
commonLen(a, b) ==
  IF Len(a) = 0 \/ Len(b) = 0 \/ a[1] # b[1] THEN 0 ELSE 1 + commonLen(Tail(a), Tail(b))

\* path.relative(from, to) of two absolute paths
pathRelative(from, to) ==
  LET climb(f, t, c) ==
        JoinStr([i \in 1..(Len(f) - c) |-> <<".", ".">>] \o SubSeq(t, c + 1, Len(t)), <<"/">>)
      between(f, t) == climb(f, t, commonLen(f, t))
  IN between(pathSegs(from), pathSegs(to))

\* the proper ancestors of an absolute path, "/" included
ancestors(p) ==
  LET upTo(segs) == {segsToPath(SubSeq(segs, 1, k)) : k \in 0..(Len(segs) - 1)}
  IN upTo(pathSegs(p))

\* fs.stat(p): "ok", or the errno of the failure
statErrno(disk, p) ==
  LET ofNode(q) ==
        IF \E a \in ancestors(q) : a \in DOMAIN disk /\ disk[a].kind = "file" THEN "ENOTDIR"
        ELSE IF q \notin DOMAIN disk THEN "ENOENT"
        ELSE IF q # p /\ disk[q].kind = "file" THEN "ENOTDIR"
        ELSE "ok"
  IN ofNode(stripTrailingSlash(p))

\* fs.existsSync(p); fs.access(p) does not fail
fsExists(disk, p) == statErrno(disk, p) = "ok"

\* the kind of the node fs.stat(p) finds: "file", "dir", or "none"
statKind(disk, p) ==
  IF statErrno(disk, p) = "ok" THEN disk[stripTrailingSlash(p)].kind ELSE "none"

\* stat.isFile()
fsIsFile(disk, p) == statKind(disk, p) = "file"

\* stat.isDirectory()
fsIsDir(disk, p) == statKind(disk, p) = "dir"

\* fs.mkdir(dir, {recursive: true}) fails: a component of dir is a file
mkdirFails(disk, dir) ==
  \E a \in DOMAIN disk :
     /\ disk[a].kind = "file"
     /\ a \in ancestors(dir) \cup {stripTrailingSlash(dir)}

\* fs.mkdir(dir, {recursive: true}), when it succeeds: the missing
\* directories are created, and the directory that receives the first of
\* them is modified
fsMkdirP(disk, dir, now) ==
  LET made(missing) ==
        [q \in DOMAIN disk \cup missing |->
           IF q \in missing THEN [kind |-> "dir", mtime |-> now]
           ELSE IF \E m \in missing : pathDirname(m) = q THEN [disk[q] EXCEPT !.mtime = now]
           ELSE disk[q]]
  IN made((ancestors(dir) \cup {stripTrailingSlash(dir)}) \ DOMAIN disk)

\* fs.writeFile(p, content) fails: p names a directory, carries a trailing
\* slash, or its parent is not a directory
writeFileFails(disk, p) ==
  \/ EndsWith(p, <<"/">>)
  \/ (p \in DOMAIN disk /\ disk[p].kind = "dir")
  \/ ~fsIsDir(disk, pathDirname(p))

\* fs.writeFile(p, content), when it succeeds
fsWriteFile(disk, p, content, now) ==
  LET written(isNew, parent) ==
        [q \in DOMAIN disk \cup {p} |->
           IF q = p THEN [kind |-> "file", content |-> content, mtime |-> now,
                          birthtime |-> IF isNew THEN now ELSE disk[p].birthtime]
           ELSE IF isNew /\ q = parent THEN [disk[q] EXCEPT !.mtime = now]
           ELSE disk[q]]
  IN written(p \notin DOMAIN disk, pathDirname(p))

\* fs.readdir(dir): the names of the entries of a directory, in collation
\* order
fsReaddir(disk, dir) ==
  LET entries(d) ==
        SetToSortedSeq({pathBasename(q) :
                          q \in {r \in DOMAIN disk : r # <<"/">> /\ pathDirname(r) = d}})
  IN entries(stripTrailingSlash(dir))

\* path.join(dir, name) for an entry name
childPath(dir, name) ==
  LET below(d) == IF d = <<"/">> THEN d \o name ELSE d \o <<"/">> \o name
  IN below(stripTrailingSlash(dir))

RECURSIVE walkFiles(_, _, _)
\* the regular files below dir, directory by directory in readdir order;
\* fuel bounds the depth of the walk by the number of nodes on the disk
walkFiles(disk, dir, fuel) ==
  LET visit(full) == IF disk[full].kind = "file" THEN <<full>>
                     ELSE walkFiles(disk, full, fuel - 1)
      each(names) == FlattenSeq([i \in 1..Len(names) |-> visit(childPath(dir, names[i]))])
  IN IF fuel = 0 THEN <<>> ELSE each(fsReaddir(disk, dir))

\* ------------------------------------------------------------------------
\* backends/filesystem-backend.ts
\* ------------------------------------------------------------------------
\* A FilesystemBackend is its configuration [cwd, virtualMode]; its files
\* are on the disk.
maxFileSizeMb == 10
maxFileSizeBytes == maxFileSizeMb * 1024 * 1024

\* FilesystemBackend.resolvePath(key): the resolved path, or the Error thrown
resolvePath(cfg, key) ==
  LET contained(full) ==
        IF ~StartsWith(full, cfg.cwd) THEN [ok |-> FALSE, err |-> "outside_root"]
        ELSE [ok |-> TRUE, full |-> full]
      virtual(vpath) ==
        IF Includes(vpath, <<".", ".">>) \/ StartsWith(vpath, <<"~">>)
        THEN [ok |-> FALSE, err |-> "path_traversal"]
        ELSE contained(pathResolve(cfg.cwd, Slice(vpath, 1)))
  IN IF cfg.virtualMode
     THEN virtual(IF StartsWith(key, <<"/">>) THEN key ELSE <<"/">> \o key)
     ELSE [ok |-> TRUE, full |-> pathResolve(cfg.cwd, key)]

\* FilesystemBackend.toVirtualPath(absolutePath)
toVirtualPath(cfg, absolutePath) ==
  IF ~cfg.virtualMode THEN absolutePath
  ELSE <<"/">> \o pathRelative(cfg.cwd, absolutePath)

\* the FileInfo ls_info makes of one entry of a directory
lsEntryInfo(node, entryPath) ==
  IF node.kind = "file"
  THEN [path |-> entryPath, is_dir |-> FALSE, size |-> Len(node.content),
        modified_at |-> node.mtime]
  ELSE [path |-> entryPath \o <<"/">>, is_dir |-> TRUE, size |-> 0,
        modified_at |-> node.mtime]

\* FilesystemBackend.ls_info(dirPath)
FilesystemBackend_ls_info(cfg, disk, dirPath) ==
  LET info(fullPath) == lsEntryInfo(disk[fullPath], toVirtualPath(cfg, fullPath))
      entries(full, names) ==
        sortByPath([i \in 1..Len(names) |-> info(childPath(full, names[i]))])
      listed(r) ==
        IF ~r.ok THEN <<>>
        ELSE IF ~fsIsDir(disk, r.full) THEN <<>>
        ELSE entries(r.full, fsReaddir(disk, r.full))
  IN [kind |-> "list", items |-> listed(resolvePath(cfg, dirPath))]

\* the end of FilesystemBackend.read: the window of lines of the content
readWindow(content, offset, limit) ==
  LET fromLines(lines) ==
        IF offset >= Len(lines) THEN [kind |-> "error", err |-> "offset_exceeds_length"]
        ELSE [kind |-> "text",
              text |-> formatContentWithLineNumbers(
                         Slice2(lines, offset, Min(offset + limit, Len(lines))),
                         offset + 1)]
  IN IF checkEmptyContent(content) THEN [kind |-> "empty"]
     ELSE fromLines(SplitStr(content, <<NL>>))

\* what fs.stat and the isFile test of read and edit make of a path: "ok"
\* or the error returned
statFile(disk, full) ==
  LET ofStat(errno) ==
        IF errno = "ENOENT" THEN "not_found"
        ELSE IF errno # "ok" THEN "io_error"
        ELSE IF disk[stripTrailingSlash(full)].kind # "file" THEN "not_found"
        ELSE "ok"
  IN ofStat(statErrno(disk, full))

\* FilesystemBackend.read(file_path, offset, limit)
FilesystemBackend_read(cfg, disk, file_path, offset, limit) ==
  LET checked(full, status) ==
        IF status # "ok" THEN [kind |-> "error", err |-> status]
        ELSE readWindow(disk[full].content, offset, limit)
      resolved(r) ==
        IF ~r.ok THEN [kind |-> "error", err |-> r.err]
        ELSE checked(r.full, statFile(disk, r.full))
  IN resolved(resolvePath(cfg, file_path))

\* the end of FilesystemBackend.write: the parent directory is made, then
\* the file is written
writeNew(disk, full, file_path, content, now) ==
  LET into(made) ==
        IF writeFileFails(made, full)
        THEN [res |-> [kind |-> "error", err |-> "io_error"], disk |-> made]
        ELSE [res |-> [kind |-> "ok", path |-> file_path, filesUpdate |-> [kind |-> "null"]],
              disk |-> fsWriteFile(made, full, content, now)]
      under(parent) ==
        IF mkdirFails(disk, parent)
        THEN [res |-> [kind |-> "error", err |-> "io_error"], disk |-> disk]
        ELSE into(fsMkdirP(disk, parent, now))
  IN under(pathDirname(full))

\* FilesystemBackend.write(file_path, content): the result and the new disk
FilesystemBackend_write(cfg, disk, file_path, content, now) ==
  LET resolved(r) ==
        IF ~r.ok THEN [res |-> [kind |-> "error", err |-> r.err], disk |-> disk]
        ELSE IF fsExists(disk, r.full)
        THEN [res |-> [kind |-> "error", err |-> "already_exists"], disk |-> disk]
        ELSE writeNew(disk, r.full, file_path, content, now)
  IN resolved(resolvePath(cfg, file_path))

\* FilesystemBackend.edit(file_path, old_string, new_string, replace_all)
FilesystemBackend_edit(cfg, disk, file_path, old_string, new_string, replace_all, now) ==
  LET replaced(full, result) ==
        IF result.kind # "ok" THEN [res |-> result, disk |-> disk]
        ELSE [res |-> [kind |-> "ok", path |-> file_path, filesUpdate |-> [kind |-> "null"],
                       occurrences |-> result.occurrences],
              disk |-> fsWriteFile(disk, full, result.newContent, now)]
      checked(full, status) ==
        IF status # "ok" THEN [res |-> [kind |-> "error", err |-> status], disk |-> disk]
        ELSE replaced(full, performStringReplacement(disk[full].content, old_string,
                                                     new_string, replace_all))
      resolved(r) ==
        IF ~r.ok THEN [res |-> [kind |-> "error", err |-> r.err], disk |-> disk]
        ELSE checked(r.full, statFile(disk, r.full))
  IN resolved(resolvePath(cfg, file_path))

\* the lines ripgrep reads from a file: a final newline ends the last line
rgLines(content) ==
  LET trimmed(ls) == IF ls[Len(ls)] = <<>> THEN SubSeq(ls, 1, Len(ls) - 1) ELSE ls
  IN trimmed(SplitStr(content, <<NL>>))

\* FilesystemBackend.ripgrepSearch(pattern, basePath, includeGlob) when rg
\* runs: the matching lines of basePath itself or of every file below it
ripgrepSearch(cfg, disk, pattern, basePath, includeGlob) ==
  LET matched(searched) ==
        FlattenSeq([i \in 1..Len(searched) |->
           lineMatches(toVirtualPath(cfg, searched[i]), rgLines(disk[searched[i]].content),
                       pattern)])
      filtered(all) ==
        matched(SelectSeq(all, LAMBDA f :
                  includeGlob # <<>> => minimatch(pathBasename(f), includeGlob)))
  IN filtered(IF fsIsFile(disk, basePath) THEN <<basePath>>
              ELSE walkFiles(disk, basePath, Cardinality(DOMAIN disk)))

\* the matches nodeSearch finds in one file: empty lines are skipped
nodeHits(virtPath, ls, pattern) ==
  LET numbered(idx) ==
        [k \in 1..Len(idx) |-> [path |-> virtPath, line |-> idx[k], text |-> ls[idx[k]]]]
  IN numbered(SelectSeq([i \in 1..Len(ls) |-> i],
                        LAMBDA i : ls[i] # <<>> /\ regexTest(pattern, ls[i])))

\* FilesystemBackend.nodeSearch(pattern, basePath, includeGlob)
nodeSearch(cfg, disk, pattern, basePath, includeGlob) ==
  LET matched(searched) ==
        FlattenSeq([i \in 1..Len(searched) |->
           nodeHits(toVirtualPath(cfg, searched[i]),
                    SplitStr(disk[searched[i]].content, <<NL>>), pattern)])
      filtered(all) ==
        matched(SelectSeq(all, LAMBDA f :
                  /\ (includeGlob # <<>> => minimatch(pathBasename(f), includeGlob))
                  /\ Len(disk[f].content) <= maxFileSizeBytes))
  IN IF ~fsIsDir(disk, basePath) THEN <<>>
     ELSE filtered(walkFiles(disk, basePath, Cardinality(DOMAIN disk)))

\* grep_raw without the in-process search: a ripgrep that did not run
\* leaves no match
FilesystemBackend_grep_raw_rgOnly(cfg, disk, pattern, searchPath, glob, rgRuns) ==
  LET resolved(r) ==
        IF ~r.ok THEN <<>>
        ELSE IF ~fsExists(disk, r.full) THEN <<>>
        ELSE IF rgRuns THEN ripgrepSearch(cfg, disk, pattern, r.full, glob)
        ELSE <<>>
  IN IF ~regexCompiles(pattern) THEN [kind |-> "error", err |-> "invalid_regex"]
     ELSE [kind |-> "list",
           items |-> resolved(resolvePath(cfg, IF searchPath = <<>> THEN <<".">>
                                               ELSE searchPath))]

\* FilesystemBackend.grep_raw(pattern, searchPath, glob); rgRuns says
\* whether the external ripgrep ran and exited normally
FilesystemBackend_grep_raw(cfg, disk, pattern, searchPath, glob, rgRuns) ==
  LET resolved(r) ==
        IF ~r.ok THEN <<>>
        ELSE IF ~fsExists(disk, r.full) THEN <<>>
        ELSE IF rgRuns THEN ripgrepSearch(cfg, disk, pattern, r.full, glob)
        ELSE nodeSearch(cfg, disk, pattern, r.full, glob)
  IN IF ~regexCompiles(pattern) THEN [kind |-> "error", err |-> "invalid_regex"]
     ELSE [kind |-> "list",
           items |-> resolved(resolvePath(cfg, IF searchPath = <<>> THEN <<".">>
                                               ELSE searchPath))]

\* FilesystemBackend.glob_info(pattern, searchPath)
FilesystemBackend_glob_info(cfg, disk, pattern, searchPath) ==
  LET infos(found) ==
        sortByPath([i \in 1..Len(found) |->
                      [path |-> toVirtualPath(cfg, found[i]), is_dir |-> FALSE,
                       size |-> Len(disk[found[i]].content),
                       modified_at |-> disk[found[i]].mtime]])
      globbed(full, cleanPattern) ==
        infos(SelectSeq(walkFiles(disk, full, Cardinality(DOMAIN disk)),
                        LAMBDA f : minimatch(pathRelative(full, f), cleanPattern)))
      resolved(r) ==
        IF ~r.ok THEN [kind |-> "throw", err |-> r.err]
        ELSE IF ~fsIsDir(disk, r.full) THEN [kind |-> "list", items |-> <<>>]
        ELSE [kind |-> "list",
              items |-> globbed(r.full, IF StartsWith(pattern, <<"/">>) THEN Slice(pattern, 1)
                                        ELSE pattern)]
  IN resolved(IF searchPath = <<"/">> THEN [ok |-> TRUE, full |-> cfg.cwd]
              ELSE resolvePath(cfg, searchPath))

\* ------------------------------------------------------------------------
\* backends/store-backend.ts
\* ------------------------------------------------------------------------
\* A StoreBackend is its configuration [namespace, storeDir]; its files and
\* their ".meta.json" sidecars are on the disk.
metaSuffix == <<".", "m", "e", "t", "a", ".", "j", "s", "o", "n">>

\* this.namespaceDir
namespaceDir(cfg) ==
  pathJoin(cfg.storeDir, IF cfg.namespace = <<>> THEN <<"d", "e", "f", "a", "u", "l", "t">>
                         ELSE cfg.namespace)

\* StoreBackend.ensureDirectoryExists(dir) throws
ensureDirectoryThrows(disk, dir) == ~fsExists(disk, dir) /\ mkdirFails(disk, dir)

\* StoreBackend.ensureDirectoryExists(dir), when it does not throw
ensureDirectoryExists(disk, dir, now) ==
  IF fsExists(disk, dir) THEN disk ELSE fsMkdirP(disk, dir, now)

\* a constructor that empties the namespace directory it finds
StoreBackend_constructor_emptying(cfg, disk, now) ==
  LET kept == {q \in DOMAIN disk : ~StartsWith(q, namespaceDir(cfg) \o <<"/">>)}
  IN ensureDirectoryExists([q \in kept |-> disk[q]], namespaceDir(cfg), now)

\* new StoreBackend(config): the disk after the constructor has run
StoreBackend_constructor(cfg, disk, now) == ensureDirectoryExists(disk, namespaceDir(cfg), now)

\* StoreBackend.getPhysicalPath(virtualPath)
getPhysicalPath(cfg, virtualPath) ==
  pathJoin(namespaceDir(cfg),
           IF StartsWith(virtualPath, <<"/">>) THEN Slice(virtualPath, 1) ELSE virtualPath)

\* StoreBackend.getVirtualPath(physicalPath)
getVirtualPath(cfg, physicalPath) == <<"/">> \o pathRelative(namespaceDir(cfg), physicalPath)

\* JSON.stringify({created_at, modified_at}, null, 2): one line for each
\* brace and one for each time
metaStringify(created_at, modified_at) ==
  <<"{", NL>> \o ToDigits(created_at) \o <<NL>> \o ToDigits(modified_at) \o <<NL, "}">>

RECURSIVE parseDigits(_, _)
\* the number the decimal digits of s denote after the digits of value
\* acc, -1 when s is no string of digits
parseDigits(s, acc) ==
  LET digit(k) == IF k = 0 THEN -1 ELSE parseDigits(Tail(s), 10 * acc + (k - 1))
  IN IF Len(s) = 0 THEN acc
     ELSE digit(IF s[1] \in {"0", "1", "2", "3", "4", "5", "6", "7", "8", "9"}
                THEN CHOOSE k \in 1..10 : ToDigits(k - 1) = <<s[1]>>
                ELSE 0)

\* JSON.parse(text) of a sidecar: the two times, or the SyntaxError
metaParse(text) ==
  LET times(created_at, modified_at) ==
        IF created_at = -1 \/ modified_at = -1 THEN [ok |-> FALSE]
        ELSE [ok |-> TRUE, created_at |-> created_at, modified_at |-> modified_at]
      parsed(ls) ==
        IF Len(ls) # 4 \/ ls[1] # <<"{">> \/ ls[4] # <<"}">> \/ ls[2] = <<>> \/ ls[3] = <<>>
        THEN [ok |-> FALSE]
        ELSE times(parseDigits(ls[2], 0), parseDigits(ls[3], 0))
  IN parsed(SplitStr(text, <<NL>>))

\* StoreBackend.readFileData(physicalPath): the FileData, or null
readFileData(disk, physicalPath) ==
  LET withMeta(node, meta) ==
        IF ~meta.ok THEN [ok |-> FALSE]
        ELSE [ok |-> TRUE,
              data |-> [content |-> SplitStr(node.content, <<NL>>),
                        created_at |-> meta.created_at, modified_at |-> meta.modified_at]]
      read(node, metaKind, metaPath) ==
        IF metaKind = "none"
        THEN [ok |-> TRUE,
              data |-> [content |-> SplitStr(node.content, <<NL>>),
                        created_at |-> node.birthtime, modified_at |-> node.mtime]]
        ELSE IF metaKind = "dir" THEN [ok |-> FALSE]
        ELSE withMeta(node, metaParse(disk[metaPath].content))
      sidecar(node, metaPath) == read(node, statKind(disk, metaPath), metaPath)
  IN IF ~fsIsFile(disk, physicalPath) THEN [ok |-> FALSE]
     ELSE sidecar(disk[stripTrailingSlash(physicalPath)], physicalPath \o metaSuffix)

\* the end of StoreBackend.writeFileData: the file is written, then its
\* sidecar
writeBoth(d1, physicalPath, fileData, now) ==
  LET meta(d2, metaPath) ==
        IF writeFileFails(d2, metaPath) THEN [ok |-> FALSE, disk |-> d2]
        ELSE [ok |-> TRUE,
              disk |-> fsWriteFile(d2, metaPath,
                         metaStringify(fileData.created_at, fileData.modified_at), now)]
  IN IF writeFileFails(d1, physicalPath) THEN [ok |-> FALSE, disk |-> d1]
     ELSE meta(fsWriteFile(d1, physicalPath, JoinStr(fileData.content, <<NL>>), now),
               physicalPath \o metaSuffix)

\* StoreBackend.writeFileData(physicalPath, fileData): whether it returned
\* or threw, and the disk it leaves
writeFileData(disk, physicalPath, fileData, now) ==
  LET into(dir) ==
        IF ensureDirectoryThrows(disk, dir) THEN [ok |-> FALSE, disk |-> disk]
        ELSE writeBoth(ensureDirectoryExists(disk, dir, now), physicalPath, fileData, now)
  IN into(pathDirname(physicalPath))

RECURSIVE getAllFilesRecursive(_, _, _)
\* StoreBackend.getAllFilesRecursive(dir): the files below dir that are not
\* sidecars, in readdir order; fuel bounds the depth by the number of nodes
getAllFilesRecursive(disk, dir, fuel) ==
  LET visit(fullPath) ==
        IF disk[fullPath].kind = "dir" THEN getAllFilesRecursive(disk, fullPath, fuel - 1)
        ELSE <<fullPath>>
      each(names) == FlattenSeq([i \in 1..Len(names) |-> visit(childPath(dir, names[i]))])
  IN IF fuel = 0 \/ ~fsExists(disk, dir) THEN <<>>
     ELSE each(SelectSeq(fsReaddir(disk, dir), LAMBDA n : ~EndsWith(n, metaSuffix)))

\* getAllFilesRecursive(dir) throws: readdirSync of a path that exists and
\* is not a directory
getAllFilesThrows(disk, dir) == statKind(disk, dir) = "file"

\* the FileInfo StoreBackend.ls_info makes of one entry of a directory
storeEntryInfo(node, entryVirtualPath) ==
  IF node.kind = "dir"
  THEN dirInfoOf(IF EndsWith(entryVirtualPath, <<"/">>) THEN entryVirtualPath
                 ELSE entryVirtualPath \o <<"/">>)
  ELSE [path |-> entryVirtualPath, is_dir |-> FALSE, size |-> Len(node.content),
        modified_at |-> node.mtime]

\* StoreBackend.ls_info(virtualPath)
StoreBackend_ls_info(cfg, disk, virtualPath) ==
  LET info(entryPhysicalPath) ==
        storeEntryInfo(disk[entryPhysicalPath], getVirtualPath(cfg, entryPhysicalPath))
      entries(physicalPath, names) ==
        sortByPath([i \in 1..Len(names) |-> info(childPath(physicalPath, names[i]))])
      listed(physicalPath) ==
        IF ~fsIsDir(disk, physicalPath) THEN <<>>
        ELSE entries(physicalPath,
                     SelectSeq(fsReaddir(disk, physicalPath),
                               LAMBDA n : ~EndsWith(n, metaSuffix)))
  IN [kind |-> "list", items |-> listed(getPhysicalPath(cfg, virtualPath))]

\* StoreBackend.read(file_path, offset, limit)
StoreBackend_read(cfg, disk, file_path, offset, limit) ==
  LET found(fileData) ==
        IF ~fileData.ok THEN [kind |-> "error", err |-> "not_found"]
        ELSE formatReadResponse(fileData.data, offset, limit)
  IN found(readFileData(disk, getPhysicalPath(cfg, file_path)))

\* StoreBackend.write(file_path, content): the result and the new disk
StoreBackend_write(cfg, disk, file_path, content, now) ==
  LET written(w) ==
        IF ~w.ok THEN [res |-> [kind |-> "throw", err |-> "io_error"], disk |-> w.disk]
        ELSE [res |-> [kind |-> "ok", path |-> file_path, filesUpdate |-> [kind |-> "null"]],
              disk |-> w.disk]
      at(physicalPath) ==
        IF fsExists(disk, physicalPath)
        THEN [res |-> [kind |-> "error", err |-> "already_exists"], disk |-> disk]
        ELSE written(writeFileData(disk, physicalPath, createFileData(content, now), now))
  IN at(getPhysicalPath(cfg, file_path))

\* StoreBackend.edit(file_path, old_string, new_string, replace_all)
StoreBackend_edit(cfg, disk, file_path, old_string, new_string, replace_all, now) ==
  LET written(w, occurrences) ==
        IF ~w.ok THEN [res |-> [kind |-> "throw", err |-> "io_error"], disk |-> w.disk]
        ELSE [res |-> [kind |-> "ok", path |-> file_path, filesUpdate |-> [kind |-> "null"],
                       occurrences |-> occurrences],
              disk |-> w.disk]
      replaced(physicalPath, data, result) ==
        IF result.kind # "ok" THEN [res |-> result, disk |-> disk]
        ELSE written(writeFileData(disk, physicalPath,
                                   updateFileData(data, result.newContent, now), now),
                     result.occurrences)
      found(physicalPath, fileData) ==
        IF ~fileData.ok THEN [res |-> [kind |-> "error", err |-> "not_found"], disk |-> disk]
        ELSE replaced(physicalPath, fileData.data,
                      performStringReplacement(fileDataToString(fileData.data), old_string,
                                               new_string, replace_all))
      at(physicalPath) == found(physicalPath, readFileData(disk, physicalPath))
  IN at(getPhysicalPath(cfg, file_path))

\* the loop of StoreBackend.grep_raw over one file: nothing for a file the
\* glob leaves out or readFileData cannot read
storeFileMatches(cfg, disk, f, pattern, globPattern) ==
  LET ofData(virtualPath, fileData) ==
        IF ~fileData.ok THEN <<>>
        ELSE lineMatches(virtualPath, fileData.data.content, pattern)
      ofPath(virtualPath) ==
        IF globPattern # <<>> /\ ~minimatch(virtualPath, globPattern) THEN <<>>
        ELSE ofData(virtualPath, readFileData(disk, f))
  IN ofPath(getVirtualPath(cfg, f))

\* StoreBackend.grep_raw(pattern, searchPath, globPattern)
StoreBackend_grep_raw(cfg, disk, pattern, searchPath, globPattern) ==
  LET matched(allFiles) ==
        FlattenSeq([i \in 1..Len(allFiles) |->
                      storeFileMatches(cfg, disk, allFiles[i], pattern, globPattern)])
      under(physicalBasePath) ==
        IF getAllFilesThrows(disk, physicalBasePath) THEN [kind |-> "throw", err |-> "io_error"]
        ELSE [kind |-> "list",
              items |-> matched(getAllFilesRecursive(disk, physicalBasePath,
                                                     Cardinality(DOMAIN disk)))]
  IN IF ~regexCompiles(pattern) THEN [kind |-> "error", err |-> "invalid_regex"]
     ELSE under(getPhysicalPath(cfg, IF searchPath = <<>> THEN <<"/">> ELSE searchPath))

\* StoreBackend.glob_info(pattern, searchPath)
StoreBackend_glob_info(cfg, disk, pattern, searchPath) ==
  LET infos(found) ==
        sortByMtimeDesc([i \in 1..Len(found) |->
                           [path |-> getVirtualPath(cfg, found[i]), is_dir |-> FALSE,
                            size |-> Len(disk[found[i]].content),
                            modified_at |-> disk[found[i]].mtime]])
      globbed(allFiles) ==
        infos(SelectSeq(allFiles, LAMBDA f : minimatch(getVirtualPath(cfg, f), pattern)))
      under(physicalBasePath) ==
        IF getAllFilesThrows(disk, physicalBasePath) THEN [kind |-> "throw", err |-> "io_error"]
        ELSE [kind |-> "list",
              items |-> globbed(getAllFilesRecursive(disk, physicalBasePath,
                                                     Cardinality(DOMAIN disk)))]
  IN under(getPhysicalPath(cfg, searchPath))

\* ------------------------------------------------------------------------
\* types/backend.ts: BackendProtocol, the six operations of every backend
\* ------------------------------------------------------------------------
\* A backend is [type |-> "state", id], [type |-> "fs", cfg] or
\* [type |-> "store", cfg].  The world w is [mem, disk]: mem maps the id of
\* each StateBackend to its Map, disk is the host file system.

\* BackendProtocol.ls_info(path)
Backend_ls_info(b, w, path) ==
  CASE b.type = "state" -> StateBackend_ls_info(w.mem[b.id], path)
    [] b.type = "fs" -> FilesystemBackend_ls_info(b.cfg, w.disk, path)
    [] b.type = "store" -> StoreBackend_ls_info(b.cfg, w.disk, path)

\* BackendProtocol.read(file_path, offset, limit)
Backend_read(b, w, file_path, offset, limit) ==
  CASE b.type = "state" -> StateBackend_read(w.mem[b.id], file_path, offset, limit)
    [] b.type = "fs" -> FilesystemBackend_read(b.cfg, w.disk, file_path, offset, limit)
    [] b.type = "store" -> StoreBackend_read(b.cfg, w.disk, file_path, offset, limit)

\* BackendProtocol.write(file_path, content): the result and the new world
Backend_write(b, w, file_path, content, now) ==
  LET inMem(r) == [res |-> r.res, w |-> [w EXCEPT !.mem[b.id] = r.files]]
      onDisk(r) == [res |-> r.res, w |-> [w EXCEPT !.disk = r.disk]]
  IN CASE b.type = "state" ->
            inMem(StateBackend_write(w.mem[b.id], file_path, content, now))
       [] b.type = "fs" ->
            onDisk(FilesystemBackend_write(b.cfg, w.disk, file_path, content, now))
       [] b.type = "store" ->
            onDisk(StoreBackend_write(b.cfg, w.disk, file_path, content, now))

\* BackendProtocol.edit(file_path, old_string, new_string, replace_all)
Backend_edit(b, w, file_path, old_string, new_string, replace_all, now) ==
  LET inMem(r) == [res |-> r.res, w |-> [w EXCEPT !.mem[b.id] = r.files]]
      onDisk(r) == [res |-> r.res, w |-> [w EXCEPT !.disk = r.disk]]
  IN CASE b.type = "state" ->
            inMem(StateBackend_edit(w.mem[b.id], file_path, old_string, new_string,
                                    replace_all, now))
       [] b.type = "fs" ->
            onDisk(FilesystemBackend_edit(b.cfg, w.disk, file_path, old_string, new_string,
                                          replace_all, now))
       [] b.type = "store" ->
            onDisk(StoreBackend_edit(b.cfg, w.disk, file_path, old_string, new_string,
                                     replace_all, now))

\* BackendProtocol.grep_raw(pattern, path, glob)
Backend_grep_raw(b, w, pattern, path, glob, rgRuns) ==
  CASE b.type = "state" -> StateBackend_grep_raw(w.mem[b.id], pattern, path, glob)
    [] b.type = "fs" -> FilesystemBackend_grep_raw(b.cfg, w.disk, pattern, path, glob, rgRuns)
    [] b.type = "store" -> StoreBackend_grep_raw(b.cfg, w.disk, pattern, path, glob)

\* BackendProtocol.glob_info(pattern, path); a missing path is "/"
Backend_glob_info(b, w, pattern, path) ==
  CASE b.type = "state" -> StateBackend_glob_info(w.mem[b.id], pattern, path)
    [] b.type = "fs" -> FilesystemBackend_glob_info(b.cfg, w.disk, pattern, path)
    [] b.type = "store" -> StoreBackend_glob_info(b.cfg, w.disk, pattern, path)

\* ------------------------------------------------------------------------
\* backends/composite-backend.ts
\* ------------------------------------------------------------------------
\* A CompositeBackend is [default, routes]: routes is the sequence of the
\* entries [prefix, backend] of config.routes in the order of Object.entries.

RECURSIVE insertByLength(_, _)
\* one step of the stable sort of the routes, longest prefix first
insertByLength(sorted, e) ==
  IF Len(sorted) = 0 THEN <<e>>
  ELSE IF Len(e.prefix) > Len(sorted[1].prefix) THEN <<e>> \o sorted
  ELSE <<sorted[1]>> \o insertByLength(Tail(sorted), e)

\* the routes left in the order of config.routes
sortedRoutes_asGiven(routes) == routes

RECURSIVE sortedRoutes(_)
\* this.sortedRoutes
sortedRoutes(routes) ==
  IF Len(routes) = 0 THEN <<>>
  ELSE insertByLength(sortedRoutes(SubSeq(routes, 1, Len(routes) - 1)), routes[Len(routes)])

\* routePrefix.replace(/\/$/, '')
cleanRoutePrefix(routePrefix) ==
  IF EndsWith(routePrefix, <<"/">>) THEN SubSeq(routePrefix, 1, Len(routePrefix) - 1)
  ELSE routePrefix

RECURSIVE firstRoute(_, _, _)
\* the loop "for (const [prefix, backend] of this.sortedRoutes)": the first
\* route from index k on of which a prefix (clean or not) starts the key,
\* or no route
firstRoute(sorted, key, clean) ==
  IF Len(sorted) = 0 THEN [found |-> FALSE]
  ELSE IF StartsWith(key, IF clean THEN cleanRoutePrefix(sorted[1].prefix)
                          ELSE sorted[1].prefix)
  THEN [found |-> TRUE, prefix |-> sorted[1].prefix, backend |-> sorted[1].backend]
  ELSE firstRoute(Tail(sorted), key, clean)

\* the key a routed backend is called with: "/" and what follows the n
\* first characters of the path, "/" when nothing follows
strippedKey(path, n) ==
  LET rooted(suffix) == IF suffix # <<>> THEN <<"/">> \o suffix ELSE <<"/">>
  IN rooted(Slice(path, n))

\* CompositeBackend.getBackendAndKey(key)
getBackendAndKey(c, key) ==
  LET routed(route) ==
        IF ~route.found THEN [backend |-> c.default, key |-> key]
        ELSE [backend |-> route.backend, key |-> strippedKey(key, Len(route.prefix))]
  IN routed(firstRoute(sortedRoutes(c.routes), key, FALSE))

\* infos.map(fi => ({...fi, path: routePrefix.replace(/\/$/, '') + fi.path}))
addRoutePrefix(routePrefix, items) ==
  [i \in 1..Len(items) |-> [items[i] EXCEPT !.path = cleanRoutePrefix(routePrefix) \o @]]

\* the answer of a routed backend with the route prefix put back; an
\* answer that is not a list is passed on
prefixed(routePrefix, raw) ==
  IF raw.kind # "list" THEN raw
  ELSE [kind |-> "list", items |-> addRoutePrefix(routePrefix, raw.items)]

\* CompositeBackend.ls_info without the entries of the routes at the root
CompositeBackend_ls_info_defaultOnly(c, w, path) ==
  LET routed(route) ==
        IF route.found
        THEN prefixed(route.prefix,
                      Backend_ls_info(route.backend, w, strippedKey(path, Len(route.prefix))))
        ELSE Backend_ls_info(c.default, w, path)
  IN routed(firstRoute(sortedRoutes(c.routes), path, TRUE))

\* CompositeBackend.ls_info(path)
CompositeBackend_ls_info(c, w, path) ==
  LET routed(route) ==
        IF route.found
        THEN prefixed(route.prefix,
                      Backend_ls_info(route.backend, w, strippedKey(path, Len(route.prefix))))
        ELSE IF path = <<"/">>
        THEN [kind |-> "list",
              items |-> sortByPath(Backend_ls_info(c.default, w, path).items
                                   \o [k \in 1..Len(c.routes) |->
                                         dirInfoOf(sortedRoutes(c.routes)[k].prefix)])]
        ELSE Backend_ls_info(c.default, w, path)
  IN routed(firstRoute(sortedRoutes(c.routes), path, TRUE))

\* CompositeBackend.read(file_path, offset, limit)
CompositeBackend_read(c, w, file_path, offset, limit) ==
  LET at(bk) == Backend_read(bk.backend, w, bk.key, offset, limit)
  IN at(getBackendAndKey(c, file_path))

\* CompositeBackend.write(file_path, content)
CompositeBackend_write(c, w, file_path, content, now) ==
  LET at(bk) == Backend_write(bk.backend, w, bk.key, content, now)
  IN at(getBackendAndKey(c, file_path))

\* CompositeBackend.edit(file_path, old_string, new_string, replace_all)
CompositeBackend_edit(c, w, file_path, old_string, new_string, replace_all, now) ==
  LET at(bk) == Backend_edit(bk.backend, w, bk.key, old_string, new_string, replace_all, now)
  IN at(getBackendAndKey(c, file_path))

RECURSIVE mergeRouted(_, _, _, _)
\* the loop over Object.entries(this.routes) of grep_raw and glob_info:
\* raws[k] is what the backend of route k answers; the results of route k
\* onwards are added to acc, and the first answer that is not a list ends
\* the loop and is returned
mergeRouted(routes, raws, k, acc) ==
  IF k > Len(routes) THEN [kind |-> "list", items |-> acc]
  ELSE IF raws[k].kind # "list" THEN raws[k]
  ELSE mergeRouted(routes, raws, k + 1, acc \o addRoutePrefix(routes[k].prefix, raws[k].items))

\* the path a routed backend searches: what follows the clean prefix, "/"
\* when nothing follows
searchKey(path, routePrefix) ==
  LET rooted(searchPath) == IF searchPath = <<>> THEN <<"/">> ELSE searchPath
  IN rooted(Slice(path, Len(routePrefix) - 1))

\* the first loop of grep_raw: the route a search restricted to a path is
\* sent to, or no route when the path is missing or no clean prefix starts it
searchTarget(c, path) ==
  IF path = <<>> THEN [found |-> FALSE]
  ELSE firstRoute(sortedRoutes(c.routes), path, TRUE)

\* CompositeBackend.grep_raw(pattern, path, glob)
CompositeBackend_grep_raw(c, w, pattern, path, glob, rgRuns) ==
  LET everywhere(rawDefault) ==
        IF rawDefault.kind # "list" THEN rawDefault
        ELSE mergeRouted(c.routes,
                         [k \in 1..Len(c.routes) |->
                            Backend_grep_raw(c.routes[k].backend, w, pattern, <<"/">>,
                                             glob, rgRuns)],
                         1, rawDefault.items)
      routed(route) ==
        IF route.found
        THEN prefixed(route.prefix,
                      Backend_grep_raw(route.backend, w, pattern,
                                       searchKey(path, route.prefix), glob, rgRuns))
        ELSE everywhere(Backend_grep_raw(c.default, w, pattern, path, glob, rgRuns))
  IN routed(searchTarget(c, path))

\* CompositeBackend.glob_info(pattern, path)
CompositeBackend_glob_info(c, w, pattern, path) ==
  LET sorted(all) ==
        IF all.kind # "list" THEN all ELSE [kind |-> "list", items |-> sortByPath(all.items)]
      everywhere(first) ==
        IF first.kind # "list" THEN first
        ELSE sorted(mergeRouted(c.routes,
                                [k \in 1..Len(c.routes) |->
                                   Backend_glob_info(c.routes[k].backend, w, pattern, <<"/">>)],
                                1, first.items))
      routed(route) ==
        IF route.found
        THEN prefixed(route.prefix,
                      Backend_glob_info(route.backend, w, pattern,
                                        searchKey(path, route.prefix)))
        ELSE everywhere(Backend_glob_info(c.default, w, pattern, path))
  IN routed(firstRoute(sortedRoutes(c.routes), path, TRUE))

\* ------------------------------------------------------------------------
\* The deployment: one backend of each kind and a router over them
\* ------------------------------------------------------------------------
\* cli/agent/manager.ts composes a StateBackend default with a StoreBackend
\* under /memories/; the composite tests nest a second route below the
\* first.  Here the default is a StateBackend, /m/ is the StoreBackend of
\* namespace A and /m/l/ is a sandboxed FilesystemBackend; a second
\* StoreBackend, of namespace B, shares the store directory of the first.
rootDir == <<"/", "r">>
storeDir == <<"/", "s">>
stateBackend == [type |-> "state", id |-> "default"]
filesystemBackend == [type |-> "fs", cfg |-> [cwd |-> rootDir, virtualMode |-> TRUE]]
storeBackendA == [type |-> "store", cfg |-> [namespace |-> <<"A">>, storeDir |-> storeDir]]
storeBackendB == [type |-> "store", cfg |-> [namespace |-> <<"B">>, storeDir |-> storeDir]]
prefixM == <<"/", "m", "/">>
prefixML == <<"/", "m", "/", "l", "/">>
compositeBackend ==
  [default |-> stateBackend,
   routes |-> <<[prefix |-> prefixM, backend |-> storeBackendA],
                [prefix |-> prefixML, backend |-> filesystemBackend]>>]

Instances == {"state", "fs", "storeA", "storeB", "router"}

\* the backend an instance name stands for (the router has its own operators)
backendOf(name) ==
  CASE name = "state" -> stateBackend
    [] name = "fs" -> filesystemBackend
    [] name = "storeA" -> storeBackendA
    [] name = "storeB" -> storeBackendB

\* the six operations of an instance
Instance_ls_info(name, w, path) ==
  IF name = "router" THEN CompositeBackend_ls_info(compositeBackend, w, path)
  ELSE Backend_ls_info(backendOf(name), w, path)

Instance_read(name, w, path, offset, limit) ==
  IF name = "router" THEN CompositeBackend_read(compositeBackend, w, path, offset, limit)
  ELSE Backend_read(backendOf(name), w, path, offset, limit)

Instance_write(name, w, path, content, now) ==
  IF name = "router" THEN CompositeBackend_write(compositeBackend, w, path, content, now)
  ELSE Backend_write(backendOf(name), w, path, content, now)

Instance_edit(name, w, path, old, new, all, now) ==
  IF name = "router" THEN CompositeBackend_edit(compositeBackend, w, path, old, new, all, now)
  ELSE Backend_edit(backendOf(name), w, path, old, new, all, now)

Instance_grep_raw(name, w, pattern, path, glob, rgRuns) ==
  IF name = "router"
  THEN CompositeBackend_grep_raw(compositeBackend, w, pattern, path, glob, rgRuns)
  ELSE Backend_grep_raw(backendOf(name), w, pattern, path, glob, rgRuns)

Instance_glob_info(name, w, pattern, path) ==
  IF name = "router" THEN CompositeBackend_glob_info(compositeBackend, w, pattern, path)
  ELSE Backend_glob_info(backendOf(name), w, pattern, path)

\* ------------------------------------------------------------------------
\* Inputs of the calls
\* ------------------------------------------------------------------------
pRoot == <<"/">>
pF == <<"/", "f">>
pD == <<"/", "d">>
pDF == <<"/", "d", "/", "f">>
pUpF == <<"/", ".", ".", "/", "f">>
pUp == <<"/", ".", ".">>
pTildeF == <<"~", "/", "f">>
pUpBF == <<"/", ".", ".", "/", "B", "/", "f">>
pUpB == <<"/", ".", ".", "/", "B">>
pMF == prefixM \o <<"f">>
pMLF == prefixML \o <<"f">>

\* the file paths each instance is called with
FilePaths(name) ==
  CASE name = "state" -> {pF, pDF}
    [] name = "fs" -> {pF, pUpF, pTildeF}
    [] name = "storeA" -> {pF, pUpBF}
    [] name = "storeB" -> {pF}
    [] name = "router" -> {pF, pMF, pMLF, prefixM}

\* the directory paths each instance is called with
DirPaths(name) ==
  CASE name = "state" -> {pRoot, pD}
    [] name = "fs" -> {pRoot, pUp}
    [] name = "storeA" -> {pRoot, pUpB}
    [] name = "storeB" -> {pRoot}
    [] name = "router" -> {pRoot, prefixM, prefixML}

\* an empty file, a blank one, two lines, and one line longer than
\* MAX_LINE_LENGTH in which "a" occurs three times
Contents == {<<>>, <<SP>>, <<"a", NL, "b">>, <<"a", "a", "a">>}

\* the edits: <<old_string, new_string, replace_all>>
Edits ==
  {<<<<"a">>, <<SP>>, FALSE>>, <<<<"a">>, <<SP>>, TRUE>>, <<<<"a">>, <<"$", "&">>, FALSE>>,
   <<<<"x">>, <<SP>>, FALSE>>, <<<<>>, <<SP>>, FALSE>>}

\* a regular expression that matches, and one that does not compile
Patterns == {<<"a">>, <<"[", "a">>}

\* the searches: <<path, glob, rgRuns>>; <<>> is no path or no glob, and
\* rgRuns tells whether the ripgrep binary runs on the host
Searches(name) ==
  {<<path, <<>>, TRUE>> : path \in DirPaths(name) \cup {<<>>}}
    \cup (IF name \in {"fs", "router"} THEN {<<pRoot, <<>>, FALSE>>, <<pRoot, <<"f">>, FALSE>>}
          ELSE {<<pRoot, <<"f">>, TRUE>>})

\* glob patterns
Globs == {<<"*">>, <<"*", "*", "/", "*">>}

\* ------------------------------------------------------------------------
\* The state machine
\* ------------------------------------------------------------------------
VARIABLES
  mem,    \* the Map of each StateBackend
  disk,   \* the host file system
  clock,  \* the number of times Date.now() has been read
  last    \* the call whose result the caller holds, or "idle"

vars == <<mem, disk, clock, last>>

world == [mem |-> mem, disk |-> disk]

idle == [op |-> "idle"]

\* the disk on which the backends are constructed: the root directory of
\* the FilesystemBackend and the store directory exist
emptyDisk ==
  [q \in {<<"/">>, rootDir, storeDir} |-> [kind |-> "dir", mtime |-> 0]]

Init ==
  /\ mem = [id \in {"default"} |-> <<>>]
  /\ disk = StoreBackend_constructor(storeBackendB.cfg,
               StoreBackend_constructor(storeBackendA.cfg, emptyDisk, 0), 0)
  /\ clock = 0
  /\ last = idle

\* ls_info(path) on an instance
LsInfo ==
  \E name \in Instances : \E path \in DirPaths(name) :
    /\ last = idle
    /\ last' = [op |-> "ls_info", backend |-> name, path |-> path,
                res |-> Instance_ls_info(name, world, path)]
    /\ UNCHANGED <<mem, disk, clock>>

\* read(file_path, offset, limit) on an instance
Read ==
  \E name \in Instances : \E path \in FilePaths(name) :
  \E ol \in {<<0, 1>>, <<1, 2>>, <<2, 1>>} :
    /\ last = idle
    /\ last' = [op |-> "read", backend |-> name, path |-> path,
                offset |-> ol[1], limit |-> ol[2],
                res |-> Instance_read(name, world, path, ol[1], ol[2])]
    /\ UNCHANGED <<mem, disk, clock>>

\* write(file_path, content) on an instance; the clock advances when the
\* call stores something, and MaxClock bounds the calls that store
Write ==
  \E name \in Instances : \E path \in FilePaths(name) : \E content \in Contents :
    LET returns(r) ==
          /\ r.w # world => clock < MaxClock
          /\ clock' = IF r.w = world THEN clock ELSE clock + 1
          /\ mem' = r.w.mem
          /\ disk' = r.w.disk
          /\ last' = [op |-> "write", backend |-> name, path |-> path,
                      content |-> content, res |-> r.res]
    IN /\ last = idle
       /\ returns(Instance_write(name, world, path, content, clock + 1))

\* edit(file_path, old_string, new_string, replace_all) on an instance
Edit ==
  \E name \in Instances : \E path \in FilePaths(name) : \E e \in Edits :
    LET returns(r) ==
          /\ r.w # world => clock < MaxClock
          /\ clock' = IF r.w = world THEN clock ELSE clock + 1
          /\ mem' = r.w.mem
          /\ disk' = r.w.disk
          /\ last' = [op |-> "edit", backend |-> name, path |-> path, old |-> e[1],
                      new |-> e[2], all |-> e[3], res |-> r.res]
    IN /\ last = idle
       /\ returns(Instance_edit(name, world, path, e[1], e[2], e[3], clock + 1))

\* grep_raw(pattern, path, glob) on an instance
GrepRaw ==
  \E name \in Instances : \E pattern \in Patterns : \E s \in Searches(name) :
    /\ last = idle
    /\ last' = [op |-> "grep_raw", backend |-> name, pattern |-> pattern, path |-> s[1],
                glob |-> s[2], rgRuns |-> s[3],
                res |-> Instance_grep_raw(name, world, pattern, s[1], s[2], s[3])]
    /\ UNCHANGED <<mem, disk, clock>>

\* glob_info(pattern, path) on an instance
GlobInfo ==
  \E name \in Instances : \E pattern \in Globs : \E path \in DirPaths(name) :
    /\ last = idle
    /\ last' = [op |-> "glob_info", backend |-> name, pattern |-> pattern, path |-> path,
                res |-> Instance_glob_info(name, world, pattern, path)]
    /\ UNCHANGED <<mem, disk, clock>>

\* the process ends and a new one constructs its backends again: the
\* StateBackend starts with an empty Map, the StoreBackends with the same
\* namespace and store directory
Restart ==
  /\ last = idle
  /\ mem' = [id \in {"default"} |-> <<>>]
  /\ disk' = StoreBackend_constructor(storeBackendB.cfg,
                StoreBackend_constructor(storeBackendA.cfg, disk, clock), clock)
  /\ last' = [op |-> "restart"]
  /\ UNCHANGED clock

\* the call never returns: the loop it runs has no exit, and the thread that
\* runs it runs nothing else
hung == last.op = "edit" /\ last.res.kind = "hang"

\* the caller takes the result of its call and goes on to its next call
Return ==
  /\ last # idle
  /\ ~hung
  /\ last' = idle
  /\ UNCHANGED <<mem, disk, clock>>

Next == LsInfo \/ Read \/ Write \/ Edit \/ GrepRaw \/ GlobInfo \/ Restart \/ Return

Spec == Init /\ [][Next]_vars


\* ------------------------------------------------------------------------
\* The router alone, called with paths beside a route prefix
\* ------------------------------------------------------------------------
\* /mx/ is a directory of the default backend whose name starts with the
\* name of the route /m/ without being below it; /d is a directory of the
\* default backend whose name has nothing of a route
pMx == <<"/", "m", "x", "/">>
pMxF == pMx \o <<"f">>
RouterFilePaths == {pF, pMF, pMLF, pMxF}
RouterDirPaths == {pRoot, prefixM, prefixML, pMx, pD}

RouterLsInfo ==
  \E path \in RouterDirPaths :
    /\ last = idle
    /\ last' = [op |-> "ls_info", backend |-> "router", path |-> path,
                res |-> Instance_ls_info("router", world, path)]
    /\ UNCHANGED <<mem, disk, clock>>

RouterRead ==
  \E path \in RouterFilePaths :
    /\ last = idle
    /\ last' = [op |-> "read", backend |-> "router", path |-> path,
                offset |-> 0, limit |-> 2,
                res |-> Instance_read("router", world, path, 0, 2)]
    /\ UNCHANGED <<mem, disk, clock>>

RouterWrite ==
  \E path \in RouterFilePaths : \E content \in Contents :
    LET returns(r) ==
          /\ r.w # world => clock < MaxClock
          /\ clock' = IF r.w = world THEN clock ELSE clock + 1
          /\ mem' = r.w.mem
          /\ disk' = r.w.disk
          /\ last' = [op |-> "write", backend |-> "router", path |-> path,
                      content |-> content, res |-> r.res]
    IN /\ last = idle
       /\ returns(Instance_write("router", world, path, content, clock + 1))

RouterEdit ==
  \E path \in RouterFilePaths : \E e \in Edits :
    LET returns(r) ==
          /\ r.w # world => clock < MaxClock
          /\ clock' = IF r.w = world THEN clock ELSE clock + 1
          /\ mem' = r.w.mem
          /\ disk' = r.w.disk
          /\ last' = [op |-> "edit", backend |-> "router", path |-> path, old |-> e[1],
                      new |-> e[2], all |-> e[3], res |-> r.res]
    IN /\ last = idle
       /\ returns(Instance_edit("router", world, path, e[1], e[2], e[3], clock + 1))

RouterGrepRaw ==
  \E path \in RouterDirPaths :
    /\ last = idle
    /\ last' = [op |-> "grep_raw", backend |-> "router", pattern |-> <<"a">>,
                path |-> path, glob |-> <<>>, rgRuns |-> TRUE,
                res |-> Instance_grep_raw("router", world, <<"a">>, path, <<>>, TRUE)]
    /\ UNCHANGED <<mem, disk, clock>>

RouterGlobInfo ==
  \E path \in RouterDirPaths :
    /\ last = idle
    /\ last' = [op |-> "glob_info", backend |-> "router", pattern |-> <<"*", "*", "/", "*">>,
                path |-> path,
                res |-> Instance_glob_info("router", world, <<"*", "*", "/", "*">>, path)]
    /\ UNCHANGED <<mem, disk, clock>>

\* a caller that holds the StoreBackend of the route /m/ writes to it
\* without the router, at a path that the router gives to the route /m/l/
pLF == <<"/", "l", "/", "f">>

RoutedWrite ==
  \E content \in {<<"a">>} :
    LET returns(r) ==
          /\ r.w # world => clock < MaxClock
          /\ clock' = IF r.w = world THEN clock ELSE clock + 1
          /\ mem' = r.w.mem
          /\ disk' = r.w.disk
          /\ last' = [op |-> "write", backend |-> "storeA", path |-> pLF,
                      content |-> content, res |-> r.res]
    IN /\ last = idle
       /\ returns(Instance_write("storeA", world, pLF, content, clock + 1))

NextRouter ==
  RouterLsInfo \/ RouterRead \/ RouterWrite \/ RouterEdit \/ RouterGrepRaw
    \/ RouterGlobInfo \/ RoutedWrite \/ Return

SpecRouter == Init /\ [][NextRouter]_vars

\* ------------------------------------------------------------------------
\* The sandboxed FilesystemBackend called with every short path
\* ------------------------------------------------------------------------
MaxKeyLen == 4

\* the letter of the root directory's name and the characters resolvePath
\* and path.resolve treat specially
KeyChars == {"/", ".", "~", "r"}

\* every path of at most MaxKeyLen characters
Keys == UNION {[1..n -> KeyChars] : n \in 1..MaxKeyLen}

SandboxRead ==
  \E key \in Keys :
    /\ last = idle
    /\ last' = [op |-> "read", backend |-> "fs", path |-> key, offset |-> 0, limit |-> 1,
                res |-> Instance_read("fs", world, key, 0, 1)]
    /\ UNCHANGED <<mem, disk, clock>>

SandboxWrite ==
  \E key \in Keys :
    LET returns(r) ==
          /\ r.w # world => clock < 1
          /\ clock' = IF r.w = world THEN clock ELSE clock + 1
          /\ mem' = r.w.mem
          /\ disk' = r.w.disk
          /\ last' = [op |-> "write", backend |-> "fs", path |-> key,
                      content |-> <<"a">>, res |-> r.res]
    IN /\ last = idle
       /\ returns(Instance_write("fs", world, key, <<"a">>, clock + 1))

NextSandbox == SandboxRead \/ SandboxWrite \/ Return

SpecSandbox == Init /\ [][NextSandbox]_vars

\* ------------------------------------------------------------------------
\* Two calls in flight on one backend instance
\* ------------------------------------------------------------------------
\* The code runs on one thread: a call runs without interruption up to an
\* await of a promise that is not yet settled, and another call may run
\* from there.  StateBackend.write and edit have no await, StoreBackend.write
\* and edit use the synchronous calls of node:fs, so a call on them is one
\* step; FilesystemBackend.write and edit await three calls of fs/promises
\* each, and each of the three is one step.
\* A call in flight is [pc, arg, local, res]: where it is, its argument (the
\* content, or <<old_string, new_string, replace_all>>), what it holds
\* between two steps, and its result once it has returned.
pending == [kind |-> "pending"]

returned(call, res) == [call EXCEPT !.pc = "done", !.res = res]

\* one step of FilesystemBackend.write(file_path, content)
FilesystemBackend_write_step(cfg, dsk, file_path, call, now) ==
  LET full == resolvePath(cfg, file_path).full
      failed(err) == [call |-> returned(call, [kind |-> "error", err |-> err]), disk |-> dsk]
      access(r) ==
        IF ~r.ok THEN failed(r.err)
        ELSE IF fsExists(dsk, r.full) THEN failed("already_exists")
        ELSE [call |-> [call EXCEPT !.pc = "mkdir"], disk |-> dsk]
  IN CASE call.pc = "access" -> access(resolvePath(cfg, file_path))
       [] call.pc = "mkdir" ->
            IF mkdirFails(dsk, pathDirname(full)) THEN failed("io_error")
            ELSE [call |-> [call EXCEPT !.pc = "writeFile"],
                  disk |-> fsMkdirP(dsk, pathDirname(full), now)]
       [] call.pc = "writeFile" ->
            IF writeFileFails(dsk, full) THEN failed("io_error")
            ELSE [call |-> returned(call, [kind |-> "ok", path |-> file_path,
                                           filesUpdate |-> [kind |-> "null"]]),
                  disk |-> fsWriteFile(dsk, full, call.arg, now)]

\* one step of FilesystemBackend.edit(file_path, old_string, new_string,
\* replace_all); the replacement is computed as soon as the file is read
FilesystemBackend_edit_step(cfg, dsk, file_path, call, now) ==
  LET full == resolvePath(cfg, file_path).full
      failed(err) == [call |-> returned(call, [kind |-> "error", err |-> err]), disk |-> dsk]
      stat(r) ==
        IF ~r.ok THEN failed(r.err)
        ELSE IF statFile(dsk, r.full) # "ok" THEN failed(statFile(dsk, r.full))
        ELSE [call |-> [call EXCEPT !.pc = "readFile"], disk |-> dsk]
      replaced(result) ==
        IF result.kind # "ok" THEN [call |-> returned(call, result), disk |-> dsk]
        ELSE [call |-> [call EXCEPT !.pc = "writeFile", !.local = result], disk |-> dsk]
  IN CASE call.pc = "stat" -> stat(resolvePath(cfg, file_path))
       [] call.pc = "readFile" ->
            IF statFile(dsk, full) # "ok" THEN failed(statFile(dsk, full))
            ELSE replaced(performStringReplacement(dsk[full].content, call.arg[1],
                                                   call.arg[2], call.arg[3]))
       [] call.pc = "writeFile" ->
            IF writeFileFails(dsk, full) THEN failed("io_error")
            ELSE [call |-> returned(call, [kind |-> "ok", path |-> file_path,
                                           filesUpdate |-> [kind |-> "null"],
                                           occurrences |-> call.local.occurrences]),
                  disk |-> fsWriteFile(dsk, full, call.local.newContent, now)]

\* where a call starts
firstPc(name, op) ==
  IF name # "fs" THEN "call" ELSE IF op = "write" THEN "access" ELSE "stat"

\* one step of a call in flight on an instance: the call after it and the
\* world after it
stepOf(name, op, file_path, call, w, now) ==
  LET onDisk(r) == [call |-> r.call, w |-> [w EXCEPT !.disk = r.disk]]
      whole(r) == [call |-> returned(call, r.res), w |-> r.w]
  IN IF name = "fs"
     THEN IF op = "write"
          THEN onDisk(FilesystemBackend_write_step(filesystemBackend.cfg, w.disk,
                                                   file_path, call, now))
          ELSE onDisk(FilesystemBackend_edit_step(filesystemBackend.cfg, w.disk,
                                                  file_path, call, now))
     ELSE IF op = "write" THEN whole(Instance_write(name, w, file_path, call.arg, now))
          ELSE whole(Instance_edit(name, w, file_path, call.arg[1], call.arg[2],
                                   call.arg[3], now))

ConcInstances == {"state", "fs", "storeA"}

\* two contents that differ, and two edits of different places of the first
ConcContents == {<<"a", "b">>, <<"b">>}
ConcEdits == {<<<<"a">>, <<"x">>, FALSE>>, <<<<"b">>, <<"y">>, FALSE>>}

inFlight(name, op, path, arg1, arg2) ==
  [op |-> "concurrent", call |-> op, backend |-> name, path |-> path,
   before |-> world,
   calls |-> [i \in 1..2 |-> [pc |-> firstPc(name, op),
                              arg |-> IF i = 1 THEN arg1 ELSE arg2,
                              local |-> <<>>, res |-> pending]]]

\* two callers call write on the same instance with the same path
ConcWritePair ==
  \E name \in ConcInstances : \E c1 \in ConcContents : \E c2 \in ConcContents :
    /\ last = idle
    /\ clock + 2 <= 2 * MaxClock
    /\ last' = inFlight(name, "write", pF, c1, c2)
    /\ UNCHANGED <<mem, disk, clock>>

\* two callers call edit on the same instance with the same path
ConcEditPair ==
  \E name \in ConcInstances : \E e1 \in ConcEdits : \E e2 \in ConcEdits :
    /\ last = idle
    /\ clock + 2 <= 2 * MaxClock
    /\ last' = inFlight(name, "edit", pF, e1, e2)
    /\ UNCHANGED <<mem, disk, clock>>

\* one of the calls in flight runs up to its next await, or to its return
ConcStep ==
  \E i \in 1..2 :
    LET after(r) ==
          /\ last' = [last EXCEPT !.calls[i] = r.call]
          /\ mem' = r.w.mem
          /\ disk' = r.w.disk
          /\ clock' = IF r.w = world THEN clock ELSE clock + 1
    IN /\ last.op = "concurrent"
       /\ last.calls[i].pc # "done"
       /\ after(stepOf(last.backend, last.call, last.path, last.calls[i], world, clock + 1))

\* both callers hold their results and go on
ConcReturn ==
  /\ last.op = "concurrent"
  /\ \A i \in 1..2 : last.calls[i].pc = "done"
  /\ last' = idle
  /\ UNCHANGED <<mem, disk, clock>>

NextConc == ConcWritePair \/ ConcEditPair \/ ConcStep \/ ConcReturn

SpecConc == Init /\ [][NextConc]_vars

\* ------------------------------------------------------------------------
\* The calls that store, with the fairness of the event loop
\* ------------------------------------------------------------------------
\* A call that has computed its result returns it: the promise it returned
\* is settled and the event loop runs the continuation of the caller.  A
\* call whose loop has no exit never gets there.
NextEdit == Write \/ Edit \/ Return

SpecEdit == Init /\ [][NextEdit]_vars /\ WF_vars(Return)

\* ------------------------------------------------------------------------
\* The same calls on a StateBackend, a sandboxed FilesystemBackend and a
\* StoreBackend, all three fresh
\* ------------------------------------------------------------------------
pA == <<"/", "a">>
pAB == <<"/", "a", "/", "b">>
pC == <<"/", "c">>
TripleInstances == <<"state", "fs", "storeA">>
TriplePaths == {pA, pAB, pC}
TripleContents == {<<"x">>, <<"x", NL, "y">>}

\* the call is made on each of the three backends in turn; they keep their
\* files apart (the Map, the root directory, the directory of the namespace)
TripleWrite ==
  \E path \in TriplePaths : \E content \in TripleContents :
    LET third(r1, r2, r3) ==
          /\ r3.w # world => clock < MaxClock
          /\ clock' = IF r3.w = world THEN clock ELSE clock + 1
          /\ mem' = r3.w.mem
          /\ disk' = r3.w.disk
          /\ last' = [op |-> "each", call |-> "write", path |-> path,
                      content |-> content, res |-> <<r1.res, r2.res, r3.res>>]
        second(r1, r2) ==
          third(r1, r2, Instance_write("storeA", r2.w, path, content, clock + 1))
        first(r1) == second(r1, Instance_write("fs", r1.w, path, content, clock + 1))
    IN /\ last = idle
       /\ first(Instance_write("state", world, path, content, clock + 1))

TripleEdit ==
  \E path \in TriplePaths : \E new \in {<<"z">>, <<>>} :
    LET third(r1, r2, r3) ==
          /\ r3.w # world => clock < MaxClock
          /\ clock' = IF r3.w = world THEN clock ELSE clock + 1
          /\ mem' = r3.w.mem
          /\ disk' = r3.w.disk
          /\ last' = [op |-> "each", call |-> "edit", path |-> path, old |-> <<"x">>,
                      new |-> new, all |-> FALSE, res |-> <<r1.res, r2.res, r3.res>>]
        second(r1, r2) ==
          third(r1, r2, Instance_edit("storeA", r2.w, path, <<"x">>, new, FALSE, clock + 1))
        first(r1) ==
          second(r1, Instance_edit("fs", r1.w, path, <<"x">>, new, FALSE, clock + 1))
    IN /\ last = idle
       /\ first(Instance_edit("state", world, path, <<"x">>, new, FALSE, clock + 1))

TripleRead ==
  \E path \in TriplePaths : \E offset \in 0..1 :
    /\ last = idle
    /\ last' = [op |-> "each", call |-> "read", path |-> path,
                offset |-> offset, limit |-> 2,
                res |-> [i \in 1..3 |->
                           Instance_read(TripleInstances[i], world, path, offset, 2)]]
    /\ UNCHANGED <<mem, disk, clock>>

TripleLsInfo ==
  \E path \in {pRoot, pA} :
    /\ last = idle
    /\ last' = [op |-> "each", call |-> "ls_info", path |-> path,
                res |-> [i \in 1..3 |-> Instance_ls_info(TripleInstances[i], world, path)]]
    /\ UNCHANGED <<mem, disk, clock>>

NextTriple == TripleWrite \/ TripleEdit \/ TripleRead \/ TripleLsInfo \/ Return

SpecTriple == Init /\ [][NextTriple]_vars

\* ------------------------------------------------------------------------
\* The content search of the sandboxed FilesystemBackend, with the ways
\* the external ripgrep process can end
\* ------------------------------------------------------------------------
pG == <<"/", "g">>
SearchFiles == {pF, pDF, pG}
SearchBases == {pRoot, pD, pF}
SearchContents == {<<"a">>, <<"a", NL>>, <<"b", NL, "a">>}
SearchGlobs == {<<>>, <<"f">>}

\* how the ripgrep process ends: it prints its matches and exits with
\* status 0, the binary is not installed, it exits with another status, or
\* it is killed after the timeout of 30 s
RgOutcomes == {"ok", "unavailable", "failed", "timeout"}

\* execAsync resolves only when the process exited with status 0; every
\* rejection is caught by ripgrepSearch, which then returns null
rgResolves(outcome) == outcome = "ok"

SearchWrite ==
  \E path \in SearchFiles : \E content \in SearchContents :
    LET returns(r) ==
          /\ r.w # world => clock < MaxClock
          /\ clock' = IF r.w = world THEN clock ELSE clock + 1
          /\ mem' = r.w.mem
          /\ disk' = r.w.disk
          /\ last' = [op |-> "write", backend |-> "fs", path |-> path,
                      content |-> content, res |-> r.res]
    IN /\ last = idle
       /\ returns(Instance_write("fs", world, path, content, clock + 1))

SearchGrepRaw ==
  \E path \in SearchBases : \E glob \in SearchGlobs : \E outcome \in RgOutcomes :
    /\ last = idle
    /\ last' = [op |-> "search", backend |-> "fs", pattern |-> <<"a">>, path |-> path,
                glob |-> glob, rg |-> outcome,
                res |-> Instance_grep_raw("fs", world, <<"a">>, path, glob,
                                          rgResolves(outcome))]
    /\ UNCHANGED <<mem, disk, clock>>

NextSearch == SearchWrite \/ SearchGrepRaw \/ Return

SpecSearch == Init /\ [][NextSearch]_vars

\* ------------------------------------------------------------------------
\* Writes and edits of each kind of backend at a path, at the path of the
\* sidecar a StoreBackend keeps for it, and at a third path
\* ------------------------------------------------------------------------
pFMeta == pF \o metaSuffix
FrameInstances == {"state", "fs", "storeA"}
FramePaths == {pF, pFMeta, pG}
FrameContents == {<<"x">>, <<"{">>}

\* the edits: <<old_string, new_string>>
FrameEdits == {<<<<"x">>, <<"z">>>>, <<<<"{">>, <<>>>>}

FrameWrite ==
  \E name \in FrameInstances : \E path \in FramePaths : \E content \in FrameContents :
    LET returns(r) ==
          /\ r.w # world => clock < MaxClock
          /\ clock' = IF r.w = world THEN clock ELSE clock + 1
          /\ mem' = r.w.mem
          /\ disk' = r.w.disk
          /\ last' = [op |-> "write", backend |-> name, path |-> path,
                      content |-> content, res |-> r.res]
    IN /\ last = idle
       /\ returns(Instance_write(name, world, path, content, clock + 1))

FrameEdit ==
  \E name \in FrameInstances : \E path \in FramePaths : \E e \in FrameEdits :
    LET returns(r) ==
          /\ r.w # world => clock < MaxClock
          /\ clock' = IF r.w = world THEN clock ELSE clock + 1
          /\ mem' = r.w.mem
          /\ disk' = r.w.disk
          /\ last' = [op |-> "edit", backend |-> name, path |-> path, old |-> e[1],
                      new |-> e[2], all |-> FALSE, res |-> r.res]
    IN /\ last = idle
       /\ returns(Instance_edit(name, world, path, e[1], e[2], FALSE, clock + 1))

NextFrame == FrameWrite \/ FrameEdit \/ Return

SpecFrame == Init /\ [][NextFrame]_vars
\* ------------------------------------------------------------------------
\* Properties
\* ------------------------------------------------------------------------
\* the path holds a file on the instance: read returns its text, or the
\* reminder that it is empty
Readable(name, w, path) == Instance_read(name, w, path, 0, 1).kind \in {"text", "empty"}

\* C1: on every instance (in-memory, disk, persistent, router), a write to
\* a path that holds a file returns the "already exists" error, with no
\* path in the result, and leaves everything stored as it was.
C1_WriteKeepsOccupiedPath ==
  [][(last'.op = "write" /\ Readable(last'.backend, world, last'.path))
       => /\ last'.res = [kind |-> "error", err |-> "already_exists"]
          /\ mem' = mem
          /\ disk' = disk]_vars

\* a second write through the router to the path of a persistent file has
\* been refused
C1_Witness ==
  /\ last.op = "write"
  /\ last.backend = "router"
  /\ last.path = pMF
  /\ last.res = [kind |-> "error", err |-> "already_exists"]
  /\ Readable("storeA", world, pF)

\* the text a backend holds at a path, read from where the backend keeps
\* it: [ok |-> FALSE] when it holds no file there
TextOf(b, w, path) ==
  LET inMap(files, i) ==
        IF i = 0 THEN [ok |-> FALSE]
        ELSE [ok |-> TRUE, text |-> fileDataToString(files[i].data)]
      onDisk(p) ==
        IF ~p.ok THEN [ok |-> FALSE]
        ELSE IF statFile(w.disk, p.full) # "ok" THEN [ok |-> FALSE]
        ELSE [ok |-> TRUE, text |-> w.disk[p.full].content]
      inStore(fileData) ==
        IF ~fileData.ok THEN [ok |-> FALSE]
        ELSE [ok |-> TRUE, text |-> fileDataToString(fileData.data)]
  IN CASE b.type = "state" -> inMap(w.mem[b.id], mapIndex(w.mem[b.id], path))
       [] b.type = "fs" -> onDisk(resolvePath(b.cfg, path))
       [] b.type = "store" -> inStore(readFileData(w.disk, getPhysicalPath(b.cfg, path)))

\* the text an instance holds at a path; the router holds what the backend
\* it dispatches the path to holds
Text(name, w, path) ==
  LET target(t) == TextOf(t.backend, w, t.key)
  IN IF name = "router" THEN target(getBackendAndKey(compositeBackend, path))
     ELSE TextOf(backendOf(name), w, path)

\* the number of places of a text where a string occurs
Occurrences(text, old) == Cardinality({i \in 0..Len(text) : OccursAt(text, old, i)})

RECURSIVE ReplacedLiterally(_, _, _, _)
\* a text with the first occurrence of a non-empty string, or every
\* occurrence met from left to right, replaced by another string as it stands
ReplacedLiterally(s, old, new, all) ==
  IF Len(old) = 0 \/ Len(s) < Len(old) THEN s
  ELSE IF SubSeq(s, 1, Len(old)) = old
       THEN new \o (IF all THEN ReplacedLiterally(Slice(s, Len(old)), old, new, all)
                    ELSE Slice(s, Len(old)))
  ELSE <<s[1]>> \o ReplacedLiterally(Tail(s), old, new, all)

\* the world after a step
worldAfter == [mem |-> mem', disk |-> disk']

\* C2: an edit returns an error result and leaves everything stored as it
\* was (contents and times) when the path holds no file, when old does not
\* occur in the text of the file, or when replace_all is false and old occurs
\* more than once.
C2_EditFailsUnchanged ==
  [][LET fails(t) ==
           \/ ~t.ok
           \/ Occurrences(t.text, last'.old) = 0
           \/ ~last'.all /\ Occurrences(t.text, last'.old) > 1
     IN (last'.op = "edit" /\ fails(Text(last'.backend, world, last'.path)))
          => /\ last'.res.kind = "error"
             /\ mem' = mem
             /\ disk' = disk]_vars

\* C2 holds of every edit whose old string is not empty
C2_NonEmptyOldFailsUnchanged ==
  [][LET fails(t) ==
           \/ ~t.ok
           \/ Occurrences(t.text, last'.old) = 0
           \/ ~last'.all /\ Occurrences(t.text, last'.old) > 1
     IN (last'.op = "edit" /\ last'.old # <<>>
           /\ fails(Text(last'.backend, world, last'.path)))
          => /\ last'.res.kind = "error"
             /\ mem' = mem
             /\ disk' = disk]_vars

\* C3: a successful edit stores the text it found with the occurrence of
\* old (every occurrence, from left to right, under replace_all) replaced by
\* new as it stands, and returns the number of replacements made; when old
\* occurs once, the edit with the other value of replace_all stores the same
\* text.
C3_EditReplacesLiterally ==
  [][LET same(t, u) == t.ok /\ u.ok /\ t.text = u.text
         other(r) == Text(last'.backend, r.w, last'.path)
         literal(before, after) ==
           /\ before.ok /\ after.ok
           /\ after.text = ReplacedLiterally(before.text, last'.old, last'.new, last'.all)
           /\ last'.res.occurrences =
                (IF last'.all THEN Len(SplitStr(before.text, last'.old)) - 1 ELSE 1)
           /\ Occurrences(before.text, last'.old) = 1
                => same(after, other(Instance_edit(last'.backend, world, last'.path, last'.old,
                                                   last'.new, ~last'.all, clock + 1)))
     IN (last'.op = "edit" /\ last'.res.kind = "ok")
          => literal(Text(last'.backend, world, last'.path),
                     Text(last'.backend, worldAfter, last'.path))]_vars

\* the lines of a content, each after its 1-based number, in order
Numbered(c) ==
  LET lines == SplitStr(c, <<NL>>)
  IN JoinStr([i \in 1..Len(lines) |->
                PadStart(ToDigits(i), LINE_NUMBER_WIDTH) \o <<TAB>> \o lines[i]],
             <<NL>>)

\* a content with a character that is not white space and with no line
\* longer than the maximum line length
Renderable(c) ==
  /\ \E i \in 1..Len(c) : c[i] \notin {SP, TAB, NL}
  /\ \A i \in 1..Len(SplitStr(c, <<NL>>)) : Len(SplitStr(c, <<NL>>)[i]) <= MAX_LINE_LENGTH

\* read(p, 0, N) just after write(p, c) returns the numbered lines of c, for
\* N the number of lines of c and for a larger N
ReadsBackNumbered ==
  \A extra \in 0..1 :
    Instance_read(last.backend, world, last.path, 0,
                  Len(SplitStr(last.content, <<NL>>)) + extra)
      = [kind |-> "text", text |-> Numbered(last.content)]

\* C4: for a content c with a character that is not white space and no line
\* longer than the maximum line length, a successful write(p, c) followed by
\* read(p, 0, N), N at least the number of lines of c, returns every line of
\* c, in order, each after its 1-based line number.  (An empty or blank c
\* reads back as the empty-file reminder, and a longer line as numbered
\* chunks.)
C4_WriteThenReadNumbered ==
  (last.op = "write" /\ last.res.kind = "ok" /\ Renderable(last.content))
    => ReadsBackNumbered

\* a content of two lines has been written through the router to the
\* persistent backend and reads back numbered
C4_Witness ==
  /\ last.op = "write"
  /\ last.res.kind = "ok"
  /\ last.backend = "router"
  /\ last.path = pMF
  /\ last.content = <<"a", NL, "b">>
  /\ ReadsBackNumbered

\* C4 as stated: any content c
C4_AnyContent ==
  (last.op = "write" /\ last.res.kind = "ok") => ReadsBackNumbered

\* a path with ".." in it or with "~" at its start
Unsafe(path) == Includes(path, <<".", ".">>) \/ StartsWith(path, <<"~">>)

\* a result that carries nothing: an error, an exception or an empty list
Rejected(res) ==
  \/ res.kind \in {"error", "throw"}
  \/ res.kind = "list" /\ res.items = <<>>

\* C5: every operation of the sandboxed disk backend on a path with ".." in
\* it or "~" at its start is rejected and leaves the disk as it was: a
\* rejected write creates no file and no directory.
C5_UnsafePathsRejected ==
  [][(last'.op \in {"ls_info", "read", "write", "edit", "grep_raw", "glob_info"}
        /\ last'.backend = "fs" /\ Unsafe(last'.path))
       => /\ Rejected(last'.res)
          /\ disk' = disk]_vars

\* C5 holds of the paths with ".." in them
C5_DotDotRejected ==
  [][(last'.op \in {"ls_info", "read", "write", "edit", "grep_raw", "glob_info"}
        /\ last'.backend = "fs" /\ Includes(last'.path, <<".", ".">>))
       => /\ Rejected(last'.res)
          /\ disk' = disk]_vars

\* the routes of the router of which the prefix starts a path
Matching(path) ==
  {i \in 1..Len(compositeBackend.routes) :
     StartsWith(path, compositeBackend.routes[i].prefix)}

\* the backend that owns a path of the router and the path it knows it by:
\* the route of the longest prefix that starts the path, with that prefix
\* taken off and "/" put in front, or the default backend and the path
Owner(path) ==
  LET longest == CHOOSE i \in Matching(path) :
                   \A j \in Matching(path) :
                     Len(compositeBackend.routes[i].prefix)
                       >= Len(compositeBackend.routes[j].prefix)
      route == compositeBackend.routes[longest]
  IN IF Matching(path) = {} THEN [backend |-> compositeBackend.default, key |-> path]
     ELSE [backend |-> route.backend, key |-> <<"/">> \o Slice(path, Len(route.prefix))]

\* what the owner of the path answers to the call of a step of the router,
\* and the world it leaves
OwnerAnswers(o, call, w) ==
  CASE call.op = "read" ->
         [res |-> Backend_read(o.backend, w, o.key, call.offset, call.limit), w |-> w]
    [] call.op = "write" -> Backend_write(o.backend, w, o.key, call.content, clock + 1)
    [] call.op = "edit" ->
         Backend_edit(o.backend, w, o.key, call.old, call.new, call.all, clock + 1)

\* C6: a write, read or edit of the router is the same call on the backend
\* of the longest route prefix that starts the path, with the prefix taken
\* off the path and a leading "/" kept ("/" when the path is the prefix), or
\* on the default backend with the path as it is when no prefix starts it;
\* with routes /m/ and /m/l/, a file written at /m/l/f is at /f in the
\* backend of /m/l/ and is not in the backend of /m/.
C6_RouterDispatch ==
  [][(last'.op \in {"read", "write", "edit"} /\ last'.backend = "router")
       => /\ [res |-> last'.res, w |-> worldAfter] = OwnerAnswers(Owner(last'.path), last', world)
          /\ (last'.op = "write" /\ last'.res.kind = "ok" /\ last'.path = pMLF)
               => /\ TextOf(filesystemBackend, worldAfter, pF)
                       = [ok |-> TRUE, text |-> last'.content]
                  /\ ~TextOf(storeBackendA, worldAfter, <<"/", "l", "/", "f">>).ok
                  /\ StoreBackend_ls_info(storeBackendA.cfg, disk', pRoot)
                       = StoreBackend_ls_info(storeBackendA.cfg, disk, pRoot)]_vars

\* a file has been written through the router under the longer of the two
\* nested prefixes and is in the backend of that prefix
C6_Witness ==
  /\ last.op = "write"
  /\ last.backend = "router"
  /\ last.path = pMLF
  /\ last.res.kind = "ok"
  /\ TextOf(filesystemBackend, world, pF).ok
  /\ Cardinality(Matching(pMLF)) = 2

\* the disk without what lies below the directory of namespace B
WithoutB(d) ==
  LET kept == {q \in DOMAIN d : ~StartsWith(q, namespaceDir(storeBackendB.cfg) \o <<"/">>)}
  IN [q \in kept |-> d[q]]

\* what an instance answers to a call that only looks, in a world
Looks(call, w) ==
  CASE call.op = "ls_info" -> Instance_ls_info(call.backend, w, call.path)
    [] call.op = "read" -> Instance_read(call.backend, w, call.path, call.offset, call.limit)
    [] call.op = "grep_raw" ->
         Instance_grep_raw(call.backend, w, call.pattern, call.path, call.glob, call.rgRuns)
    [] call.op = "glob_info" -> Instance_glob_info(call.backend, w, call.pattern, call.path)

\* C7: of two persistent backends over one store directory, no call on the
\* one of namespace A, whatever its path, creates or changes a file kept
\* under namespace B, and what A's list, read and searches return does not
\* depend on what is kept under B.
C7_NamespacesIsolated ==
  [][(last'.op \in {"ls_info", "read", "write", "edit", "grep_raw", "glob_info"}
        /\ last'.backend = "storeA")
       => /\ \A q \in DOMAIN disk' :
               StartsWith(q, namespaceDir(storeBackendB.cfg) \o <<"/">>)
                 => q \in DOMAIN disk /\ disk'[q] = disk[q]
          /\ last'.op \in {"ls_info", "read", "grep_raw", "glob_info"}
               => last'.res = Looks(last', [world EXCEPT !.disk = WithoutB(disk)])]_vars

\* C7 holds of the calls on A with paths that have no ".." in them
C7_PlainPathsIsolated ==
  [][(last'.op \in {"ls_info", "read", "write", "edit", "grep_raw", "glob_info"}
        /\ last'.backend = "storeA" /\ ~Includes(last'.path, <<".", ".">>))
       => /\ \A q \in DOMAIN disk' :
               StartsWith(q, namespaceDir(storeBackendB.cfg) \o <<"/">>)
                 => q \in DOMAIN disk /\ disk'[q] = disk[q]
          /\ last'.op \in {"ls_info", "read", "grep_raw", "glob_info"}
               => last'.res = Looks(last', [world EXCEPT !.disk = WithoutB(disk)])]_vars

\* C8: a file written, and possibly edited, through a persistent backend is
\* read with the same text by the instance constructed after a restart with
\* the same namespace and store directory, directly and through the router,
\* while the in-memory backend constructed after the restart holds no file.
C8_RestartKeepsStoreOnly ==
  [][last'.op = "restart"
       => /\ \A name \in {"storeA", "storeB", "router"} :
               \A path \in (IF name = "router" THEN {pMF} ELSE FilePaths(name)) :
                 /\ Text(name, worldAfter, path) = Text(name, world, path)
                 /\ Instance_read(name, worldAfter, path, 0, 3)
                      = Instance_read(name, world, path, 0, 3)
          /\ \A name \in {"state", "router"} : \A path \in {pF, pDF} :
               /\ ~Text(name, worldAfter, path).ok
               /\ Instance_read(name, worldAfter, path, 0, 3).kind = "error"]_vars

\* after a restart the persistent backend of namespace A holds a file that
\* was written and then edited, and the in-memory backend holds none
C8_Witness ==
  /\ last.op = "restart"
  /\ Text("storeA", world, pF).ok
  /\ Text("router", world, pMF) = Text("storeA", world, pF)
  /\ readFileData(disk, getPhysicalPath(storeBackendA.cfg, pF)).data.modified_at = 2
  /\ readFileData(disk, getPhysicalPath(storeBackendA.cfg, pF)).data.created_at = 1
  /\ mem["default"] = <<>>

\* the backends a search of the router may consult
Children ==
  {compositeBackend.default}
    \cup {compositeBackend.routes[i].backend : i \in 1..Len(compositeBackend.routes)}

\* C9: grep_raw with a pattern that is not a regular expression returns the
\* error text, never a list of matches, on every instance; and the router
\* returns an error whenever a backend it may consult answers the search
\* with an error.
C9_InvalidRegexIsError ==
  last.op = "grep_raw"
    => /\ ~regexCompiles(last.pattern) => last.res = [kind |-> "error", err |-> "invalid_regex"]
       /\ (/\ last.backend = "router"
           /\ \E b \in Children :
                Backend_grep_raw(b, world, last.pattern, pRoot, last.glob, last.rgRuns).kind
                  = "error")
            => last.res.kind = "error"

\* the router has been searched with an unclosed character class while the
\* persistent backend under it holds a file
C9_Witness ==
  /\ last.op = "grep_raw"
  /\ last.backend = "router"
  /\ last.pattern = <<"[", "a">>
  /\ last.res.kind = "error"
  /\ Text("storeA", world, pF).ok

\* the number of places of a sequence that hold a value
CountIn(seq, x) == Cardinality({i \in 1..Len(seq) : seq[i] = x})

\* the route prefixes of the router
RoutePrefixes == {compositeBackend.routes[i].prefix : i \in 1..Len(compositeBackend.routes)}

\* C10: ls_info("/") of the router returns the listing of "/" of the default
\* backend and one directory entry for each route prefix, whether or not the
\* backend of the route holds a file, and nothing else: no entry from inside
\* a routed backend.
C10_RootListing ==
  (last.op = "ls_info" /\ last.backend = "router" /\ last.path = pRoot)
    => LET listed(items, own) ==
             /\ Len(items) = Len(own) + Cardinality(RoutePrefixes)
             /\ \A prefix \in RoutePrefixes :
                  /\ Cardinality({i \in 1..Len(items) : items[i].path = prefix}) = 1
                  /\ \A i \in 1..Len(items) : items[i].path = prefix => items[i].is_dir
             /\ \A i \in 1..Len(items) :
                  items[i].path \notin RoutePrefixes
                    => CountIn(items, items[i]) = CountIn(own, items[i])
       IN /\ last.res.kind = "list"
          /\ listed(last.res.items, Backend_ls_info(compositeBackend.default, world, pRoot).items)

\* the root of the router has been listed while the default backend holds
\* a file, the persistent backend under /m/ holds a file and the disk
\* backend under /m/l/ holds none
C10_Witness ==
  /\ last.op = "ls_info"
  /\ last.backend = "router"
  /\ last.path = pRoot
  /\ Len(last.res.items) = 3
  /\ Text("storeA", world, pF).ok
  /\ ~Text("fs", world, pF).ok

\* a directory path with "/" at its end
AsDir(p) == IF EndsWith(p, <<"/">>) THEN p ELSE p \o <<"/">>

\* the file paths an instance may hold a file at: those it is called with,
\* and for the router the paths of its default backend
Universe(name) == FilePaths(name) \cup (IF name = "router" THEN {pDF} ELSE {})

\* the paths without ".." at which an instance holds a file
Held(name, w) ==
  {q \in Universe(name) : ~Includes(q, <<".", ".">>) /\ Text(name, w, q).ok}

\* the entry of the listing of the directory dir that a held file q below
\* dir accounts for: the file itself, or the subdirectory of dir it is in
ChildOf(dir, q) ==
  LET rest == Slice(q, Len(dir))
      cut == IndexOf(rest, <<"/">>, 0)
  IN IF cut = -1 THEN [path |-> q, is_dir |-> FALSE]
     ELSE [path |-> dir \o Slice2(rest, 0, cut + 1), is_dir |-> TRUE]

\* an entry is one level below the directory dir
OneLevelBelow(dir, item) ==
  LET rest == Slice(item.path, Len(dir))
      name == IF item.is_dir /\ EndsWith(rest, <<"/">>) THEN SubSeq(rest, 1, Len(rest) - 1)
              ELSE rest
  IN /\ StartsWith(item.path, dir)
     /\ name # <<>>
     /\ ~Includes(name, <<"/">>)
     /\ item.is_dir => EndsWith(rest, <<"/">>)

\* the listing of a directory is the immediate children of it
ListsChildren(name, w, dir, res) ==
  /\ res.kind = "list"
  /\ \A i \in 1..Len(res.items) : OneLevelBelow(dir, res.items[i])
  /\ \A i, j \in 1..Len(res.items) : res.items[i].path = res.items[j].path => i = j
  /\ \A q \in Held(name, w) :
       (StartsWith(q, dir) /\ Len(q) > Len(dir))
         => \E i \in 1..Len(res.items) :
              /\ res.items[i].path = ChildOf(dir, q).path
              /\ res.items[i].is_dir = ChildOf(dir, q).is_dir

\* C11: on every instance, the router included, ls_info(path) returns the
\* immediate children of path: each file held directly in path once, each
\* immediate subdirectory once as a directory entry, no entry deeper than
\* one level below path, and a list, empty if need be, never an error.
C11_ListsImmediateChildren ==
  last.op = "ls_info" => ListsChildren(last.backend, world, AsDir(last.path), last.res)

\* C11 holds of the backends that are not the router
C11_BackendsListImmediateChildren ==
  (last.op = "ls_info" /\ last.backend # "router")
    => ListsChildren(last.backend, world, AsDir(last.path), last.res)

\* the entries of a result are in non-increasing order of modification time
NewestFirst(res) ==
  \A i, j \in 1..Len(res.items) :
    i < j => res.items[i].modified_at >= res.items[j].modified_at

\* C12: on every instance, the router included, glob_info returns its
\* results in non-increasing order of modification time: the file written
\* or edited last comes first.
C12_GlobNewestFirst ==
  (last.op = "glob_info" /\ last.res.kind = "list") => NewestFirst(last.res)

\* C12 holds of the in-memory and the persistent backends
C12_StateAndStoreNewestFirst ==
  (last.op = "glob_info" /\ last.backend \in {"state", "storeA", "storeB"}
     /\ last.res.kind = "list")
    => NewestFirst(last.res)


\* lines offset + 1 .. min(offset + limit, n) of the n lines of c, each
\* after its own 1-based number
Window(c, offset, limit) ==
  LET lines == SplitStr(c, <<NL>>)
      count == Min(offset + limit, Len(lines)) - offset
  IN JoinStr([i \in 1..count |->
                PadStart(ToDigits(offset + i), LINE_NUMBER_WIDTH) \o <<TAB>>
                  \o lines[offset + i]],
             <<NL>>)

\* what read(p, offset, limit) has to return for a file whose text is c
WindowOrError(c, offset, limit) ==
  IF offset < Len(SplitStr(c, <<NL>>))
  THEN [kind |-> "text", text |-> Window(c, offset, limit)]
  ELSE [kind |-> "error", err |-> "offset_exceeds_length"]

\* a read of a file whose text satisfies Fits returns the window or the
\* out-of-range error, and no read changes what is stored
ReadsWindow(Fits(_)) ==
  last'.op = "read" =>
    /\ worldAfter = world
    /\ LET t == Text(last'.backend, world, last'.path)
       IN (t.ok /\ Fits(t.text)) =>
            last'.res = WindowOrError(t.text, last'.offset, last'.limit)

\* C13: for a file of n lines with a character that is not white space and
\* no line longer than the maximum line length, read(p, offset, limit)
\* returns exactly the lines offset .. min(offset + limit, n) - 1 (0-based),
\* numbered from offset + 1, when offset < n, and the out-of-range error when
\* offset >= n; a read never changes the stored file.
C13_ReadWindow == [][ReadsWindow(Renderable)]_vars

\* a read that returned a window cut by the limit, one that started after the
\* first line, and one out of range
C13_Witness ==
  /\ last.op = "read"
  /\ last.backend = "storeA"
  /\ Text("storeA", world, last.path).ok
  /\ Renderable(Text("storeA", world, last.path).text)
  /\ last.offset = 1
  /\ last.res.kind = "text"

NonEmptyText(c) == c # <<>>

\* the statement for every file that is not empty
C13_AnyNonEmptyFile == [][ReadsWindow(NonEmptyText)]_vars

\* the backend a write or an edit of an instance lands on and the path it
\* gets there
Landing(name, path) ==
  IF name = "router" THEN getBackendAndKey(compositeBackend, path)
  ELSE [backend |-> backendOf(name), key |-> path]

\* the state update of a successful result is the one of the kind of backend:
\* the path mapped to the record the in-memory backend now holds for it, or
\* null
UpdateOf(b, key, w, res) ==
  IF b.type = "state"
  THEN /\ res.filesUpdate.kind = "map"
       /\ res.filesUpdate.path = key
       /\ mapIndex(w.mem[b.id], key) # 0
       /\ res.filesUpdate.data = w.mem[b.id][mapIndex(w.mem[b.id], key)].data
  ELSE res.filesUpdate = [kind |-> "null"]

\* C14: a write or an edit of the in-memory backend that succeeds returns a
\* state update that maps the path to the record now stored for it, one of
\* the disk backend or of the persistent backend that succeeds returns a null
\* state update, and one that returns an error returns neither a path nor a
\* state update.
C14_StateUpdateMarker ==
  (last.op \in {"write", "edit"}) =>
    /\ last.res.kind = "ok" =>
         /\ last.res.path = Landing(last.backend, last.path).key
         /\ UpdateOf(Landing(last.backend, last.path).backend,
                     Landing(last.backend, last.path).key, world, last.res)
    /\ last.res.kind = "error" =>
         DOMAIN last.res = {"kind", "err"}

\* an edit of the in-memory backend that replaced something
C14_Witness ==
  /\ last.op = "edit"
  /\ last.backend = "state"
  /\ last.res.kind = "ok"
  /\ last.res.filesUpdate.kind = "map"
  /\ fileDataToString(last.res.filesUpdate.data) # <<>>

\* the directory a path is in, with its closing "/"
ParentDir(p) ==
  LET slashes == {i \in 1..(Len(p) - 1) : p[i] = "/"}
  IN SubSeq(p, 1, CHOOSE i \in slashes : \A j \in slashes : j <= i)

\* the paths of the items (or of the matches) of a result, none when the
\* result is not a list
PathsOf(res) ==
  IF res.kind = "list" THEN {res.items[i].path : i \in 1..Len(res.items)} ELSE {}

\* the router lists the file below its directory, finds it by name there,
\* and finds it by content there when "a" occurs in it
FoundBesideItself(w, p) ==
  /\ p \in PathsOf(Instance_ls_info("router", w, ParentDir(p)))
  /\ p \in PathsOf(Instance_glob_info("router", w, <<"*", "*", "/", "*">>, ParentDir(p)))
  /\ Includes(Text("router", w, p).text, <<"a">>) =>
       p \in PathsOf(Instance_grep_raw("router", w, <<"a">>, ParentDir(p), <<>>, TRUE))

\* C15: list, searchContent and searchNames of the router consult, for a
\* path, the backend that write, read and edit dispatch it to: at every
\* moment a file held at p through the router is among the items the router
\* lists, and among those it finds, in the directory of p.
C15_RouterOperationsAgree ==
  \A p \in RouterFilePaths : Text("router", world, p).ok => FoundBesideItself(world, p)

\* the same for the paths at or below a route prefix and the paths of the
\* root directory
C15_AgreeBelowRoutes ==
  \A p \in RouterFilePaths \ {pMxF} :
    Text("router", world, p).ok => FoundBesideItself(world, p)

\* the root directory of the sandbox or a location below it
UnderRoot(q) == q = rootDir \/ StartsWith(q, rootDir \o <<"/">>)

\* the locations of the disk that a step made or changed
Touched == {q \in DOMAIN disk' : q \notin DOMAIN disk \/ disk'[q] # disk[q]}

\* C16: in sandboxed mode every location that a write with an accepted path
\* makes or changes on the real file system is the root directory or is
\* below it, and a read with an accepted path returns a file below the root.
C16_AcceptedPathsUnderRoot ==
  [][/\ \A q \in Touched : UnderRoot(q)
     /\ (last'.op = "read" /\ last'.res.kind \in {"text", "empty"})
          => UnderRoot(resolvePath(filesystemBackend.cfg, last'.path).full)]_vars

\* what the test of resolvePath ensures: the file written starts with the
\* characters of the root directory
C16_StartsWithRootName ==
  [][\A q \in Touched : disk'[q].kind = "file" => StartsWith(q, rootDir)]_vars

\* both calls in flight have returned
BothDone(op) ==
  /\ last.op = "concurrent"
  /\ last.call = op
  /\ \A i \in 1..2 : last.calls[i].pc = "done"

\* exactly one of the two writes succeeded, the other returned "already
\* exists", and the file holds the content of the one that succeeded
OneWriteWins ==
  \E i \in 1..2 :
    /\ last.calls[i].res.kind = "ok"
    /\ last.calls[3 - i].res = [kind |-> "error", err |-> "already_exists"]
    /\ Text(last.backend, world, last.path) = [ok |-> TRUE, text |-> last.calls[i].arg]

\* C17: of two write calls for the same unoccupied path in flight at the
\* same time on one backend instance, whatever the order of their steps,
\* exactly one succeeds, the other returns "already exists", and the content
\* stored is that of the one that succeeded.
C17_ConcurrentWritesOneWins ==
  (BothDone("write") /\ ~Text(last.backend, last.before, last.path).ok) => OneWriteWins

\* the same on the backends whose write is one step
C17_AtomicBackendsOneWins ==
  (BothDone("write") /\ ~Text(last.backend, last.before, last.path).ok /\ last.backend # "fs") => OneWriteWins

\* the text after an edit that succeeds, by performStringReplacement
EditedText(text, e) == performStringReplacement(text, e[1], e[2], e[3]).newContent

\* the text is what the two edits, each succeeding, make of the text before
\* them in one of the two orders
SerialOutcome(before, e1, e2, after) ==
  \E o \in {<<e1, e2>>, <<e2, e1>>} :
    /\ performStringReplacement(before, o[1][1], o[1][2], o[1][3]).kind = "ok"
    /\ performStringReplacement(EditedText(before, o[1]), o[2][1], o[2][2], o[2][3]).kind = "ok"
    /\ after = EditedText(EditedText(before, o[1]), o[2])

\* C18: when two edit calls on the same file are in flight at the same time
\* on one backend instance and both return success, the content of the file
\* is the result of the two edits applied one after the other in some order.
C18_ConcurrentEditsSerial ==
  (BothDone("edit") /\ \A i \in 1..2 : last.calls[i].res.kind = "ok")
    => /\ Text(last.backend, last.before, last.path).ok
       /\ SerialOutcome(Text(last.backend, last.before, last.path).text, last.calls[1].arg, last.calls[2].arg,
                        Text(last.backend, world, last.path).text)

\* the same on the backends whose edit is one step
C18_AtomicBackendsSerial ==
  (BothDone("edit") /\ last.backend # "fs" /\ \A i \in 1..2 : last.calls[i].res.kind = "ok")
    => /\ Text(last.backend, last.before, last.path).ok
       /\ SerialOutcome(Text(last.backend, last.before, last.path).text, last.calls[1].arg, last.calls[2].arg,
                        Text(last.backend, world, last.path).text)

\* C19: every call to edit returns, with success or with an error, for every
\* content, old string and new string, the empty old string included.
C19_EditReturns == (last.op = "edit") ~> (last = idle)

\* every call to edit with an old string that is not empty returns
C19_NonEmptyOldReturns == (last.op = "edit" /\ last.old # <<>>) ~> (last = idle)

\* C20: on every backend and for every input, each of the six operations
\* returns a result of its normal type (a value, an error text, or a result
\* with the error set): none throws, none returns a promise that rejects.
C20_NoOperationThrows ==
  (last.op \in {"ls_info", "read", "write", "edit", "grep_raw", "glob_info"})
    => last.res.kind # "throw"

\* the same for the operations of the in-memory backend, and for ls_info and
\* read of every backend
C20_StateAndReadsReturn ==
  (last.op \in {"ls_info", "read"}
     \/ (last.op \in {"write", "edit", "grep_raw", "glob_info"} /\ last.backend = "state"))
    => last.res.kind # "throw"

\* a path the sandbox of the disk backend refuses
Violates(path) == ~resolvePath(filesystemBackend.cfg, path).ok

\* a result that tells the caller that the sandbox refused the path
Reports(res) ==
  /\ res.kind \in {"error", "throw"}
  /\ res.err \in {"path_traversal", "outside_root"}

\* C21: every operation of the sandboxed disk backend that is given a path
\* the sandbox refuses returns a result that reports the refusal, never an
\* empty list or a "not found" that a legitimate request could receive too.
C21_ViolationsReported ==
  (last.op \in {"ls_info", "read", "write", "edit", "grep_raw", "glob_info"}
     /\ last.backend = "fs" /\ Violates(last.path))
    => Reports(last.res)

\* the same for read, write, edit and glob_info
C21_FileOperationsReport ==
  (last.op \in {"read", "write", "edit", "glob_info"}
     /\ last.backend = "fs" /\ Violates(last.path))
    => Reports(last.res)

\* every path of the result of a search is below the directory searched
AllUnder(res, dir) ==
  \A i \in 1..Len(res.items) : StartsWith(res.items[i].path, AsDir(dir))

\* a search of the router restricted to a directory other than "/"
RestrictedSearch ==
  /\ last.op \in {"grep_raw", "glob_info"}
  /\ last.backend = "router"
  /\ last.path \notin {<<>>, pRoot}
  /\ last.res.kind = "list"

\* C22: every result of searchContent(pattern, path) and of
\* searchNames(pattern, path) of the router, called with a path other than
\* "/", has a path below that path: a search restricted to a directory of
\* the default backend returns nothing of a routed backend.
C22_SearchStaysUnderPath == RestrictedSearch => AllUnder(last.res, last.path)

\* the same for the searches restricted to a route prefix
C22_RouteSearchStaysUnderPath ==
  (RestrictedSearch /\ last.path \in {prefixM, prefixML}) => AllUnder(last.res, last.path)

\* the route of a prefix
RouteAt(prefix) ==
  CHOOSE k \in 1..Len(compositeBackend.routes) : compositeBackend.routes[k].prefix = prefix

\* what the backend of a route answers to the call of the router, asked
\* about its own root
RoutedAnswer(b, call, w) ==
  CASE call.op = "ls_info" -> Backend_ls_info(b, w, pRoot)
    [] call.op = "grep_raw" ->
         Backend_grep_raw(b, w, call.pattern, pRoot, call.glob, call.rgRuns)
    [] call.op = "glob_info" -> Backend_glob_info(b, w, call.pattern, pRoot)

\* a call of list or of a search of the router at a route prefix
AtRoutePrefix ==
  /\ last.op \in {"ls_info", "grep_raw", "glob_info"}
  /\ last.backend = "router"
  /\ last.path \in {prefixM, prefixML}
  /\ last.res.kind = "list"

\* the paths returned are the paths of the backend of the route, each with
\* the route prefix in the place of its leading "/"
PrefixPutBack ==
  PathsOf(last.res)
    = {last.path \o Tail(cp) :
         cp \in PathsOf(RoutedAnswer(compositeBackend.routes[RouteAt(last.path)].backend,
                                     last, world))}

\* a path returned for a file is dispatched by read to the backend of the
\* route, at the path the backend has the file under
ReadReachesEntry ==
  \A i \in 1..Len(last.res.items) :
    (last.op = "grep_raw" \/ ~last.res.items[i].is_dir)
      => getBackendAndKey(compositeBackend, last.res.items[i].path)
           = [backend |-> compositeBackend.routes[RouteAt(last.path)].backend,
              key |-> <<"/">> \o Slice(last.res.items[i].path, Len(last.path))]

\* C23: with route prefixes that end in "/", every path the router returns
\* from list, searchContent or searchNames for an entry of a routed backend
\* is the route prefix followed by the path of the entry without its leading
\* "/", and reading a returned file path through the router reaches the file
\* whose entry was returned.
C23_ReturnedPathsReadBack == AtRoutePrefix => (PrefixPutBack /\ ReadReachesEntry)

\* the first half: the prefix is put back in front of every path
C23_PrefixPutBack == AtRoutePrefix => PrefixPutBack

\* what a caller makes of a result: success or the kind of the error, the
\* text read, the paths listed in their order
Outcome(res) ==
  CASE res.kind = "list" -> [kind |-> "list",
                             paths |-> [i \in 1..Len(res.items) |-> res.items[i].path]]
    [] res.kind = "ok" -> [kind |-> "ok"]
    [] OTHER -> res

\* the three backends answered the call alike
SameOutcome ==
  /\ Outcome(last.res[1]) = Outcome(last.res[2])
  /\ Outcome(last.res[2]) = Outcome(last.res[3])

\* C24: every call of a sequence of write, edit, read and list calls made
\* in the same order on a fresh in-memory backend, a fresh sandboxed disk
\* backend and a fresh persistent backend has the same outcome on the three:
\* success or the same kind of error, the same text read, the same paths
\* listed in the same order.
C24_BackendsAgree == last.op = "each" => SameOutcome

\* the same for the calls on a path that is no directory of another path
\* and is in no such directory
C24_FlatPathsAgree ==
  (last.op = "each" /\ last.path = pC) => SameOutcome

\* the matches of a search result as a set
MatchSet(res) == IF res.kind = "list" THEN {res.items[i] : i \in 1..Len(res.items)} ELSE {}

\* what the search just made returns when ripgrep serves it, and when the
\* in-process search does
ByRipgrep ==
  Backend_grep_raw(filesystemBackend, world, last.pattern, last.path, last.glob, TRUE)

ByNode ==
  Backend_grep_raw(filesystemBackend, world, last.pattern, last.path, last.glob, FALSE)

\* C25: for the same files, pattern, base path and glob filter, the search
\* of the disk backend returns the same set of matches whether ripgrep or
\* the in-process search serves it, the base path being a single file
\* included.
C25_SameMatches ==
  last.op = "search" => MatchSet(ByRipgrep) = MatchSet(ByNode)

\* below a base path that is a directory the two searches agree
C25_SameMatchesBelowDirectory ==
  (last.op = "search" /\ ~fsIsFile(world.disk, resolvePath(filesystemBackend.cfg, last.path).full))
     => MatchSet(ByRipgrep) = MatchSet(ByNode)

RecordOf(b, w, path) ==
  LET inMap(files, i) ==
        IF i = 0 THEN [ok |-> FALSE] ELSE [ok |-> TRUE, data |-> files[i].data]
  IN IF b.type = "state" THEN inMap(w.mem[b.id], mapIndex(w.mem[b.id], path))
     ELSE readFileData(w.disk, getPhysicalPath(b.cfg, path))

\* the backends that keep records, and the paths they can hold one at
RecordKeepers == {stateBackend, storeBackendA, storeBackendB}
RecordPaths(b) == IF b.type = "state" THEN {pF, pDF} ELSE {pF}

\* a record is not older than its creation, and a record that was there
\* before the step has kept its time of creation
KeepsCreation(before, after) ==
  after.ok =>
     /\ after.data.modified_at >= after.data.created_at
     /\ before.ok => after.data.created_at = before.data.created_at

ReadOf(name, w, q) == Instance_read(name, w, q, 0, 4)

\* the step leaves a path as it was: read returns the same before and after
Untouched(name, q) == ReadOf(name, worldAfter, q) = ReadOf(name, world, q)

\* a path that held a file before the step holds one after it
StillThere(name, q) == Readable(name, world, q) => Readable(name, worldAfter, q)

\* C28: on every backend a successful write or edit of a path p changes p
\* only: for every other path q, whether q holds a file and what read(q)
\* returns are the same before and after, a path never written stays "not
\* found", and no operation removes a file that was written.
C28_OnlyThePathChanges ==
  [][last'.op \in {"write", "edit"} =>
       /\ \A q \in FramePaths : StillThere(last'.backend, q)
       /\ last'.res.kind = "ok" =>
            \A q \in FramePaths \ {last'.path} : Untouched(last'.backend, q)]_vars

\* C28 holds where neither path is the path of a sidecar of the persistent
\* backend
C28_ApartFromSidecars ==
  [][last'.op \in {"write", "edit"} =>
       LET plain(q) == last'.backend = "storeA" => ~EndsWith(q, metaSuffix)
       IN /\ \A q \in FramePaths : plain(q) /\ plain(last'.path) => StillThere(last'.backend, q)
          /\ last'.res.kind = "ok" /\ plain(last'.path) =>
               \A q \in FramePaths \ {last'.path} : plain(q) => Untouched(last'.backend, q)]_vars

\* the result of the router names the path of the caller, in its path and
\* in the key of the state update it carries
NamesCallersPath ==
  /\ last.res.path = last.path
  /\ last.res.filesUpdate.kind = "map" => last.res.filesUpdate.path = last.path

\* C29: a write or an edit that succeeds through the router returns as its
\* path the path the caller passed to the router, and the state update it
\* returns, if any, has that path as its key.
C29_ResultNamesCallersPath ==
  (last.op \in {"write", "edit"} /\ last.backend = "router" /\ last.res.kind = "ok")
     => NamesCallersPath

\* C29 holds of the paths that no route prefix starts
C29_DefaultNamesCallersPath ==
  (last.op \in {"write", "edit"} /\ last.backend = "router" /\ last.res.kind = "ok"
     /\ Matching(last.path) = {})
     => NamesCallersPath

\* a row of the text read returns: the label padded on the left to the
\* width of the number column, a tab, the text
Row(label, text) == PadStart(label, LINE_NUMBER_WIDTH) \o <<TAB>> \o text

\* the number of chunks of a line: the length over the maximum line
\* length, rounded up
ChunkCount(line) == (Len(line) + MAX_LINE_LENGTH - 1) \div MAX_LINE_LENGTH

\* the pieces a line is cut into: piece k starts where piece k - 1 ended
\* and is as long as the maximum line length allows
Chunks(line) ==
  [k \in 1..ChunkCount(line) |->
     SubSeq(line, (k - 1) * MAX_LINE_LENGTH + 1, Min(k * MAX_LINE_LENGTH, Len(line)))]

\* the rows of line number n: one row when it is not longer than the
\* maximum, else the chunks labelled n, n.1, n.2, ...
RowsOf(line, n) ==
  IF Len(line) <= MAX_LINE_LENGTH THEN <<Row(ToDigits(n), line)>>
  ELSE [k \in 1..ChunkCount(line) |->
          Row(IF k = 1 THEN ToDigits(n) ELSE ToDigits(n) \o <<".">> \o ToDigits(k - 1),
              Chunks(line)[k])]

\* the chunks of a line are at most the maximum long and make up the line
CutsWell(line) ==
  /\ \A k \in 1..ChunkCount(line) : Len(Chunks(line)[k]) <= MAX_LINE_LENGTH
  /\ FlattenSeq(Chunks(line)) = line

\* the rows of lines offset + 1 .. last of a text
RowsOfWindow(lines, offset, upto) ==
  FlattenSeq([i \in 1..(upto - offset) |-> RowsOf(lines[offset + i], offset + i)])

\* the text a read has returned is made of the rows of the lines it covers
RendersRows(lines) ==
  /\ \A i \in 1..Len(lines) : CutsWell(lines[i])
  /\ SplitStr(last.res.text, <<NL>>)
       = RowsOfWindow(lines, last.offset, Min(last.offset + last.limit, Len(lines)))

\* C30: a line numbered n that is longer than the maximum line length M is
\* rendered by read as ceil(length / M) chunks in order, each at most M
\* long, that together are the line, the first labelled n and the k-th
\* continuation n.k; a line of at most M characters is one row; every row is
\* the label padded on the left to the width of the number column, a tab and
\* the text.
C30_LongLinesChunked ==
  (last.op = "read" /\ last.res.kind = "text")
     => RendersRows(SplitStr(Text(last.backend, world, last.path).text, <<NL>>))

\* a read has returned a line of three characters as the rows 1 and 1.1
C30_Witness ==
  /\ last.op = "read"
  /\ last.res.kind = "text"
  /\ last.offset = 0
  /\ Text(last.backend, world, last.path).text = <<"a", "a", "a">>
  /\ last.res.text = Row(<<"1">>, <<"a", "a">>) \o <<NL>> \o Row(<<"1", ".", "1">>, <<"a">>)
====
